---- MODULE Spec2Model ----
(***************************************************************************)
(* pdf2video: pipeline orchestration and resilience layer.                 *)
(*                                                                         *)
(* SpecBg     the two background task managers of app/main.py              *)
(*            (Generative-Manim: generation_tasks, Kodisc: kodisc_tasks)   *)
(*            with their start / cancel handlers and per-slide loops.      *)
(* SpecRepair the static repair loop ManimService._validate_and_fix with   *)
(*            ManimValidator.validate, _request_fix and _clean_code.       *)
(* SpecRender the render repair loop render_and_fix_slide of app/main.py,  *)
(*            for concurrent requests on one slide of one job.             *)
(* SpecJobs   the job / pipeline state model of app/main.py: the stage     *)
(*            handlers, list_jobs, restore_job and a process restart, over *)
(*            the artifact store and the in-memory jobs dict.              *)
(* SpecRenderDependent  SpecRender with the render and generate endpoints  *)
(*            that answer when their work is done.                         *)
(* SpecPlan   PlanningService.create_presentation_plan behind create_plan, *)
(*            with _repair_truncated_json and json.loads on texts.         *)
(* SpecValidator    ManimValidator.validate on one call.                   *)
(* SpecRepairLoops  the static and the render repair loop together.        *)
(* SpecBgLive SpecBg with the fairness of the event loop, for termination. *)
(*                                                                         *)
(* Handlers run on one asyncio event loop: a handler runs atomically from  *)
(* one await of a collaborator to the next, so every action below is one   *)
(* such run-to-suspension segment.                                         *)
(*                                                                         *)
(* The two managers share no mutable state (separate task dicts, separate  *)
(* collaborators, plan.json is only read), so a behaviour of SpecBg drives *)
(* one of them, chosen by  pipeline  in the initial state.                 *)
(***************************************************************************)
EXTENDS Integers, Sequences, FiniteSets, TLC

(* ---------------------------------------------------------------------- *)
(* Bounds                                                                  *)
(* ---------------------------------------------------------------------- *)
\* number of slides of the plan.json of a job
NumSlides == 2
\* number of start requests a background manager accepts for processing
MaxStarts == 2
\* largest max_attempts a repair loop is called with
MaxAttempts == 2
\* number of render_and_fix_slide requests for the slide
MaxRenderReqs == 2
\* number of process_pdf requests of a job that await the OCR service at once
MaxOcrInflight == 2

\* the slide objects of a complete planning response
MaxResponseSlides == 2

Jobs == {"j1"}

\* job_id = "dev-test", the job of create_dev_fixture
DevJob == "dev-test"

\* the jobs of the pipeline model: an uploaded one and the fixture
JobIds == Jobs \cup {DevJob}

\* number of slides of sample_plan and sample_manim_code
DevSlides == 3

\* plan_json value of a job without plan.json
NoPlan == -1

VARIABLES
    plan_json,         \* job -> NoPlan, or the number of slides of plan.json
    kodisc_configured, \* kodisc_service.is_configured()
    pipeline,          \* the video pipeline the client drives in a behaviour
    generation_tasks,  \* job -> 0 (no entry) or index of its dict in gm_records
    gm_records,        \* the task dicts created by start_video_generation
    gm_req,            \* start_video_generation requests awaiting availability
    gm_run,            \* _generate_videos_background runs
    gm_calls,          \* log of the generate_and_render calls of each run
    kodisc_tasks,      \* job -> 0 or index of its dict in kodisc_records
    kodisc_records,    \* the task dicts created by start_kodisc_generation
    kodisc_run,        \* _generate_kodisc_videos_background runs
    kodisc_calls,      \* log of the generate_video calls of each run
    response,          \* the last response a request handler returned
    skip_validation,   \* ManimService.skip_validation
    vf,                \* the activation of ManimService._validate_and_fix
    vf_log,            \* its validation passes, repair requests and candidates
    slide_file,        \* outputs/{job}/slides/{slide_id}.py: exists, code
    slide_manifest,    \* slides/manifest.json: "absent", "other", "lists_slide"
    rf,                \* the activations of render_and_fix_slide
    ep,                \* the activation of a render or generate endpoint
    gm_code_files,     \* job -> slide numbers whose slides/sNNN_gm.py exists
    gm_manifest_json,  \* job -> NoPlan, or the number of entries of
                       \*        outputs/{job}/slides/gm_manifest.json
    vcall,             \* a call of ManimValidator.validate: its arguments,
                       \* what exec(code) does, and what it returned
    plan_reply,        \* what the planning collaborator answers in a behaviour:
                       \* the text and the stop reason
    planning,          \* the planning request: the response it got, the text
                       \* it parsed, its collaborator calls and repair passes
    jobs,              \* the in-memory dict jobs: job -> NoJob or JobStatus
    upload_pdf_file,   \* job -> uploads/{job}/*.pdf exists
    output_dir,        \* job -> outputs/{job} exists
    paper_md,          \* job -> outputs/{job}/paper.md exists
    manifest_json,     \* job -> NoPlan, or the number of entries of
                       \*        outputs/{job}/slides/manifest.json
    code_files,        \* job -> slide numbers whose slides/sNNN.py exists
    code_invalid,      \* job -> slide numbers whose slides/sNNN.py holds code
                       \*        that _validate_and_fix returned as not valid
    ocr_inflight,      \* job -> process_pdf requests awaiting the OCR service
    discovered,        \* the "jobs" list of the last list_jobs response
    client_job         \* the job_id the requests of a behaviour carry: the
                       \* handlers of different jobs share no state but the
                       \* dict entry and the files of their own job

envVars == <<plan_json, kodisc_configured, pipeline>>
gmVars == <<generation_tasks, gm_records, gm_req, gm_run, gm_calls>>
kodiscVars == <<kodisc_tasks, kodisc_records, kodisc_run, kodisc_calls>>
bgVars == <<envVars, gmVars, kodiscVars>>

repairVars == <<skip_validation, vf, vf_log>>

renderVars == <<slide_file, slide_manifest, rf>>

storeVars == <<upload_pdf_file, output_dir, paper_md, manifest_json,
               code_files, code_invalid>>
jobVars == <<jobs, storeVars, ocr_inflight, discovered, client_job>>

endpointVars == <<ep, gm_code_files, gm_manifest_json>>

serviceVars == <<planning, plan_reply, vcall>>

nonBgVars == <<repairVars, renderVars, jobVars, endpointVars, serviceVars>>
nonRepairVars == <<bgVars, renderVars, jobVars, endpointVars, serviceVars,
                   response>>
nonRenderVars == <<bgVars, repairVars, jobVars, endpointVars, serviceVars>>
nonJobVars == <<kodisc_configured, pipeline, gmVars, kodiscVars, repairVars,
                renderVars, endpointVars, serviceVars>>
nonEndpointVars == <<bgVars, repairVars, renderVars, jobVars, serviceVars>>

vars == <<bgVars, nonBgVars, response>>

StartIds == 1..MaxStarts

(* ---------------------------------------------------------------------- *)
(* Generated code, ManimValidator, ManimService._clean_code                *)
(* ---------------------------------------------------------------------- *)
\* A text of Manim code, by the features the validator and the cleaner read:
\*   fenced   wrapped in a markdown code fence
\*   syntax   ast.parse accepts it (once any fence is removed)
\*   import   where "from manim import" occurs: "none", "inside", "first"
\*   classes  its class definitions: name and whether the body defines
\*            construct
\*   danger   matches one of the dangerous_patterns
MkCode(f, sy, im, cl, d) ==
    [fenced |-> f, syntax |-> sy, import |-> im, classes |-> cl, danger |-> d]

Class(name, c) == [name |-> name, construct |-> c]

ExpectedClass == "Slide001"

GoodCode     == MkCode(FALSE, TRUE, "first", {Class("Slide001", TRUE)}, FALSE)
FencedGood   == MkCode(TRUE, TRUE, "first", {Class("Slide001", TRUE)}, FALSE)
BareGood     == MkCode(FALSE, TRUE, "none", {Class("Slide001", TRUE)}, FALSE)
SyntaxBad    == MkCode(FALSE, FALSE, "first", {Class("Slide001", TRUE)}, FALSE)
WrongClass   == MkCode(FALSE, TRUE, "first", {Class("Helper", TRUE)}, FALSE)
NoConstruct  == MkCode(FALSE, TRUE, "inside", {Class("Slide001", FALSE)}, FALSE)
Dangerous    == MkCode(FALSE, TRUE, "none", {Class("Slide001", TRUE)}, TRUE)

\* the codes _validate_and_fix is called with
InputCodes == {GoodCode, BareGood, SyntaxBad, WrongClass, Dangerous}
\* the texts the generation collaborator answers a repair request with
RawResponses == {FencedGood, BareGood, SyntaxBad, WrongClass, NoConstruct}

\* ManimValidator.validate_syntax
validate_syntax(code) == ~code.fenced /\ code.syntax

\* ManimValidator.validate_imports
validate_imports(code) == code.import # "none"

\* ManimValidator.validate_class_exists
validate_class_exists(code, expected_class) ==
    IF validate_syntax(code)
    THEN \E c \in code.classes : c.name = expected_class
    ELSE TRUE

\* ManimValidator.validate_construct_method
validate_construct_method(code) ==
    IF validate_syntax(code)
    THEN \A c \in code.classes : c.construct
    ELSE TRUE

\* ManimValidator.validate_no_dangerous_code
validate_no_dangerous_code(code) == ~code.danger

\* one entry of the error list if the check failed
ErrorIf(failed, tag) == IF failed THEN <<tag>> ELSE <<>>

\* ManimValidator.validate with skip_import_check=True: the error list;
\* is_valid is "len(errors) == 0"
validate_first_failure_only(code, expected_class) ==
    IF ~validate_syntax(code) THEN <<"[SYNTAX]">>
    ELSE IF ~validate_imports(code) THEN <<"[IMPORT]">>
    ELSE IF ~validate_class_exists(code, expected_class) THEN <<"[CLASS]">>
    ELSE IF ~validate_construct_method(code) THEN <<"[METHOD]">>
    ELSE IF ~validate_no_dangerous_code(code) THEN <<"[SECURITY]">>
    ELSE <<>>

validate(code, expected_class) ==
    ErrorIf(~validate_syntax(code), "[SYNTAX]")
    \o ErrorIf(~validate_imports(code), "[IMPORT]")
    \o ErrorIf(~validate_class_exists(code, expected_class), "[CLASS]")
    \o ErrorIf(~validate_construct_method(code), "[METHOD]")
    \o ErrorIf(~validate_no_dangerous_code(code), "[SECURITY]")

\* ManimValidator.try_import: exec(code, namespace) raised nothing. exec_ok
\* is what the interpreter of the server makes of code that parses; code that
\* does not parse makes exec raise SyntaxError
try_import(code, exec_ok) == validate_syntax(code) /\ exec_ok

\* ManimValidator.validate: the error list
validate_all(code, expected_class, skip_import_check, exec_ok) ==
    LET errors == validate(code, expected_class) IN
    errors \o ErrorIf(~skip_import_check
                         /\ ~(\E h \in 1..Len(errors) : errors[h] = "[SYNTAX]")
                         /\ ~try_import(code, exec_ok), "[RUNTIME]")

\* a call of validate that has not returned
NoCall(code, skip_import_check, exec_ok) ==
    [code |-> code, skip_import_check |-> skip_import_check,
     exec_ok |-> exec_ok, returned |-> FALSE, is_valid |-> FALSE,
     errors |-> <<>>]

\* validator.validate(code, expected_class, skip_import_check) returns
validator_validate ==
    LET errors == validate_all(vcall.code, ExpectedClass,
                               vcall.skip_import_check, vcall.exec_ok)
    IN
    /\ ~vcall.returned
    /\ vcall' = [vcall EXCEPT !.returned = TRUE,
                              !.is_valid = (Len(errors) = 0),
                              !.errors = errors]
    /\ UNCHANGED <<bgVars, repairVars, renderVars, jobVars, endpointVars,
                   planning, plan_reply, response>>

\* ManimService._clean_code: drops a surrounding code fence and prepends the
\* import line unless the text starts with it
clean_code(response_text) ==
    [response_text EXCEPT
        !.fenced = FALSE,
        !.import = "first"]

(* ---------------------------------------------------------------------- *)
(* Task records                                                            *)
(* ---------------------------------------------------------------------- *)
NewTask_flag_left_set(n) ==
    [status |-> "running", total_slides |-> n, completed_slides |-> 0,
     current_slide |-> 0, successful |-> 0, failed |-> 0, results |-> <<>>,
     cancel_flag |-> TRUE, error |-> FALSE]

\* the dict literal of start_video_generation / start_kodisc_generation
NewTask(n) ==
    [status |-> "running", total_slides |-> n, completed_slides |-> 0,
     current_slide |-> 0, successful |-> 0, failed |-> 0, results |-> <<>>,
     cancel_flag |-> FALSE, error |-> FALSE]

\* a background run: pc is its position, task the dict it fetched at its first
\* line, i the loop index, n = len(slides), tier the Kodisc prompt in flight,
\* stop the way it left the loop
NoRun == [pc |-> "none", job |-> "j1", task |-> 0, i |-> 0, n |-> 0,
          tier |-> 0, stop |-> "none"]

NoResponse == [op |-> "none", job |-> "j1", status |-> "none"]

Resp(op, j, st) == [op |-> op, job |-> j, status |-> st]

IsRunning_wrong_status(tasks, records, j) ==
    tasks[j] # 0 /\ records[tasks[j]].status = "started"

\* "job_id in tasks and tasks[job_id]['status'] == 'running'"
IsRunning(tasks, records, j) ==
    tasks[j] # 0 /\ records[tasks[j]].status = "running"

RequestCancel_sets_status(rec) ==
    [rec EXCEPT !.cancel_flag = TRUE, !.status = "cancelled"]

\* task["cancel_flag"] = True
RequestCancel(rec) == [rec EXCEPT !.cancel_flag = TRUE]

TaskError_status_kept(rec) == [rec EXCEPT !.error = TRUE]

\* the except clause of a background run
TaskError(rec) == [rec EXCEPT !.status = "error", !.error = TRUE]

RecordResult_drop_failed(rec, i, res) ==
    IF res.status = "success"
    THEN [rec EXCEPT !.successful = @ + 1, !.results = Append(@, res),
                     !.completed_slides = i + 1]
    ELSE rec

\* the counters and the results list once the result of the slide with loop
\* index i is known
RecordResult(rec, i, res) ==
    [rec EXCEPT !.successful = IF res.status = "success" THEN @ + 1 ELSE @,
                !.failed = IF res.status = "success" THEN @ ELSE @ + 1,
                !.results = Append(@, res),
                !.completed_slides = i + 1]

(* ---------------------------------------------------------------------- *)
(* Generative-Manim background manager                                     *)
(* ---------------------------------------------------------------------- *)

ServiceUnavailable_ignored(available) == FALSE

\* "if not await render_service.check_availability()"
ServiceUnavailable(available) == ~available

\* Top of "for i, slide in enumerate(slides)" for index i of n slides, and the
\* code after the loop: yields the record and the run's next position.
\* io = FALSE: the storage medium is unwritable, a write_text raises.
GmLoopTop(rec, run, i, n, io) ==
    IF i >= n
    THEN IF io
         THEN <<[rec EXCEPT !.status = "complete"],
                [run EXCEPT !.pc = "done", !.i = i, !.stop = "complete"]>>
         ELSE <<TaskError(rec),
                [run EXCEPT !.pc = "done", !.i = i, !.stop = "error"]>>
    ELSE IF rec.cancel_flag
         THEN <<[rec EXCEPT !.status = "cancelled"],
                [run EXCEPT !.pc = "done", !.i = i, !.stop = "cancelled"]>>
         ELSE <<[rec EXCEPT !.current_slide = i + 1],
                [run EXCEPT !.pc = "inflight", !.i = i]>>

\* POST /api/generate/{job_id}/start up to "await check_availability()";
\* s is the slot that holds the suspended request
start_video_generation(s, j) ==
    /\ pipeline = "generative_manim"
    /\ IF IsRunning(generation_tasks, gm_records, j)
       THEN /\ s = 1
            /\ response' = Resp("gm_start", j, "already_running")
            /\ UNCHANGED gmVars
       ELSE /\ gm_req[s].pc = "idle"
            /\ \A t \in StartIds : t < s => gm_req[t].pc # "idle"
            /\ gm_req' = [gm_req EXCEPT ![s] = [pc |-> "avail", job |-> j]]
            /\ UNCHANGED <<generation_tasks, gm_records, gm_run, gm_calls,
                           response>>
    /\ UNCHANGED <<envVars, kodiscVars, nonBgVars>>

\* the rest of start_video_generation, once check_availability() returned
start_video_generation_resume(s, available) ==
    LET j == gm_req[s].job IN
    /\ gm_req[s].pc = "avail"
    /\ gm_req' = [gm_req EXCEPT ![s].pc = "done"]
    /\ IF ServiceUnavailable(available)
       THEN /\ response' = Resp("gm_start", j, "503")
            /\ UNCHANGED <<generation_tasks, gm_records, gm_run>>
       ELSE IF plan_json[j] = NoPlan
       THEN /\ response' = Resp("gm_start", j, "404")
            /\ UNCHANGED <<generation_tasks, gm_records, gm_run>>
       ELSE IF plan_json[j] = 0
       THEN /\ response' = Resp("gm_start", j, "400")
            /\ UNCHANGED <<generation_tasks, gm_records, gm_run>>
       ELSE /\ gm_records' = Append(gm_records, NewTask(plan_json[j]))
            /\ generation_tasks' =
                   [generation_tasks EXCEPT ![j] = Len(gm_records) + 1]
            /\ gm_run' = [gm_run EXCEPT ![s] =
                              [NoRun EXCEPT !.pc = "scheduled", !.job = j]]
            /\ response' = Resp("gm_start", j, "started")
    /\ UNCHANGED <<gm_calls, envVars, kodiscVars, nonBgVars>>

\* _generate_videos_background from its first line to the first await
generate_videos_background(r, io) ==
    LET run == gm_run[r]
        t   == generation_tasks[run.job]
        rec == gm_records[t]
        n   == plan_json[run.job]
        bound == [run EXCEPT !.task = t, !.n = n]
        nxt == GmLoopTop([rec EXCEPT !.total_slides = n], bound, 0, n, io)
    IN
    /\ run.pc = "scheduled"
    /\ IF n = NoPlan
       THEN /\ gm_records' = [gm_records EXCEPT ![t] = TaskError(rec)]
            /\ gm_run' = [gm_run EXCEPT ![r] =
                              [bound EXCEPT !.pc = "done", !.stop = "error"]]
            /\ UNCHANGED gm_calls
       ELSE /\ gm_records' = [gm_records EXCEPT ![t] = nxt[1]]
            /\ gm_run' = [gm_run EXCEPT ![r] = nxt[2]]
            /\ gm_calls' = [gm_calls EXCEPT ![r] =
                   IF nxt[2].pc = "inflight" THEN <<1>> ELSE <<>>]
    /\ UNCHANGED <<generation_tasks, gm_req, envVars, kodiscVars, nonBgVars,
                   response>>

\* _generate_videos_background from the return of generate_and_render for
\* the slide with loop index i to the next await or to the end of the run
generate_videos_background_resume(r, success, io) ==
    LET run == gm_run[r]
        t   == run.task
        rec == gm_records[t]
        i   == run.i
        res == [slide_number |-> i + 1,
                status |-> IF success THEN "success" ELSE "failed",
                error |-> IF success THEN "none" ELSE "error_message"]
        rec2 == RecordResult(rec, i, res)
        nxt == GmLoopTop(rec2, run, i + 1, run.n, io)
    IN
    /\ run.pc = "inflight"
    /\ IF success /\ ~io
       THEN \* code_path.write_text raises
            /\ gm_records' = [gm_records EXCEPT ![t] = TaskError(rec)]
            /\ gm_run' = [gm_run EXCEPT ![r].pc = "done", ![r].stop = "error"]
            /\ UNCHANGED gm_calls
       ELSE /\ gm_records' = [gm_records EXCEPT ![t] = nxt[1]]
            /\ gm_run' = [gm_run EXCEPT ![r] = nxt[2]]
            /\ gm_calls' = [gm_calls EXCEPT ![r] =
                   IF nxt[2].pc = "inflight" THEN Append(@, i + 2) ELSE @]
    /\ UNCHANGED <<generation_tasks, gm_req, envVars, kodiscVars, nonBgVars,
                   response>>

\* POST /api/generate/{job_id}/cancel
cancel_video_generation(j) ==
    /\ pipeline = "generative_manim"
    /\ IF generation_tasks[j] = 0
       THEN /\ response' = Resp("gm_cancel", j, "404")
            /\ UNCHANGED gm_records
       ELSE LET t == generation_tasks[j] IN
            IF gm_records[t].status # "running"
            THEN /\ response' = Resp("gm_cancel", j, gm_records[t].status)
                 /\ UNCHANGED gm_records
            ELSE /\ gm_records' = [gm_records EXCEPT ![t] = RequestCancel(@)]
                 /\ response' = Resp("gm_cancel", j, "cancelling")
    /\ UNCHANGED <<generation_tasks, gm_req, gm_run, gm_calls, envVars,
                   kodiscVars, nonBgVars>>

\* progress_pct of the progress handlers, in tenths of a percent:
\* round(completed_slides / total_slides * 100, 1), 0 when total_slides is 0
ProgressPercent(rec) ==
    IF rec.total_slides > 0
    THEN (2000 * rec.completed_slides + rec.total_slides)
             \div (2 * rec.total_slides)
    ELSE 0

\* GET /api/generate/{job_id}/progress
get_generation_progress(j) ==
    /\ pipeline = "generative_manim"
    /\ response' =
           IF generation_tasks[j] = 0 THEN Resp("gm_progress", j, "404")
           ELSE Resp("gm_progress", j, gm_records[generation_tasks[j]].status)
    /\ UNCHANGED <<bgVars, nonBgVars>>

(* ---------------------------------------------------------------------- *)
(* Kodisc background manager                                               *)
(* ---------------------------------------------------------------------- *)
Tiers_reordered == <<"primary", "fallback", "middle">>

\* the prompt ladder of a slide: primary_prompt, middle_prompt, fallback_prompt
Tiers == <<"primary", "middle", "fallback">>

\* the generate_video call issued for the slide with loop index i, tier k
KodiscCall(i, k) == [slide_number |-> i + 1, tier |-> Tiers[k],
                     outcome |-> "inflight"]

\* Top of the slide loop of _generate_kodisc_videos_background for index i,
\* and the code after the loop (reached at the end and through "break").
KodiscLoopTop(rec, run, i, n, io) ==
    IF i < n /\ ~rec.cancel_flag
    THEN <<[rec EXCEPT !.current_slide = i + 1],
           [run EXCEPT !.pc = "inflight", !.i = i, !.tier = 1]>>
    ELSE LET rec1 == IF i < n THEN [rec EXCEPT !.status = "cancelled"]
                     ELSE rec
             why  == IF i < n THEN "cancelled" ELSE "complete"
         IN IF io
            THEN <<[rec1 EXCEPT !.status = "complete"],
                   [run EXCEPT !.pc = "done", !.i = i, !.stop = why]>>
            ELSE <<TaskError(rec1),
                   [run EXCEPT !.pc = "done", !.i = i, !.stop = why]>>

\* POST /api/kodisc/{job_id}/start
start_kodisc_generation(j) ==
    /\ pipeline = "kodisc"
    /\ IF ~kodisc_configured
       THEN /\ response' = Resp("kodisc_start", j, "503")
            /\ UNCHANGED <<kodisc_tasks, kodisc_records, kodisc_run>>
       ELSE IF IsRunning(kodisc_tasks, kodisc_records, j)
       THEN /\ response' = Resp("kodisc_start", j, "already_running")
            /\ UNCHANGED <<kodisc_tasks, kodisc_records, kodisc_run>>
       ELSE IF plan_json[j] = NoPlan
       THEN /\ response' = Resp("kodisc_start", j, "404")
            /\ UNCHANGED <<kodisc_tasks, kodisc_records, kodisc_run>>
       ELSE IF plan_json[j] = 0
       THEN /\ response' = Resp("kodisc_start", j, "400")
            /\ UNCHANGED <<kodisc_tasks, kodisc_records, kodisc_run>>
       ELSE /\ Len(kodisc_records) < MaxStarts
            /\ kodisc_records' = Append(kodisc_records, NewTask(plan_json[j]))
            /\ kodisc_tasks' =
                   [kodisc_tasks EXCEPT ![j] = Len(kodisc_records) + 1]
            /\ kodisc_run' = [kodisc_run EXCEPT ![Len(kodisc_records) + 1] =
                                  [NoRun EXCEPT !.pc = "scheduled", !.job = j]]
            /\ response' = Resp("kodisc_start", j, "started")
    /\ UNCHANGED <<kodisc_calls, envVars, gmVars, nonBgVars>>

\* _generate_kodisc_videos_background from its first line to the first await
generate_kodisc_videos_background(r, io) ==
    LET run == kodisc_run[r]
        t   == kodisc_tasks[run.job]
        rec == kodisc_records[t]
        n   == plan_json[run.job]
        bound == [run EXCEPT !.task = t, !.n = n]
        nxt == KodiscLoopTop([rec EXCEPT !.total_slides = n], bound, 0, n, io)
    IN
    /\ run.pc = "scheduled"
    /\ IF n = NoPlan
       THEN /\ kodisc_records' = [kodisc_records EXCEPT ![t] = TaskError(rec)]
            /\ kodisc_run' = [kodisc_run EXCEPT ![r] =
                                  [bound EXCEPT !.pc = "done",
                                                !.stop = "error"]]
            /\ UNCHANGED kodisc_calls
       ELSE /\ kodisc_records' = [kodisc_records EXCEPT ![t] = nxt[1]]
            /\ kodisc_run' = [kodisc_run EXCEPT ![r] = nxt[2]]
            /\ kodisc_calls' = [kodisc_calls EXCEPT ![r] =
                   IF nxt[2].pc = "inflight" THEN <<KodiscCall(0, 1)>>
                   ELSE <<>>]
    /\ UNCHANGED <<kodisc_tasks, envVars, gmVars, nonBgVars, response>>

\* _generate_kodisc_videos_background from the return of a generate_video
\* call for the slide with loop index i to the next await or to the end
generate_kodisc_videos_background_resume(r, success, io) ==
    LET run == kodisc_run[r]
        t   == run.task
        rec == kodisc_records[t]
        i   == run.i
        k   == run.tier
        log == [kodisc_calls[r] EXCEPT ![Len(kodisc_calls[r])].outcome =
                    IF success THEN "success" ELSE "failed"]
        res == IF success
               THEN [slide_number |-> i + 1, status |-> "success",
                     attempts |-> k, prompt_used |-> Tiers[k],
                     error |-> "none"]
               ELSE [slide_number |-> i + 1, status |-> "failed",
                     attempts |-> 3, prompt_used |-> "none",
                     error |-> "error_message"]
        rec2 == RecordResult(rec, i, res)
        nxt == KodiscLoopTop(rec2, run, i + 1, run.n, io)
    IN
    /\ run.pc = "inflight"
    /\ IF ~success /\ k < 3
       THEN \* "if not result.success": the next prompt of the ladder
            /\ kodisc_run' = [kodisc_run EXCEPT ![r].tier = k + 1]
            /\ kodisc_calls' = [kodisc_calls EXCEPT ![r] =
                                    Append(log, KodiscCall(i, k + 1))]
            /\ UNCHANGED kodisc_records
       ELSE IF success /\ ~io
       THEN \* code_path.write_text raises
            /\ kodisc_records' = [kodisc_records EXCEPT ![t] = TaskError(rec)]
            /\ kodisc_run' = [kodisc_run EXCEPT ![r].pc = "done",
                                                ![r].stop = "error"]
            /\ kodisc_calls' = [kodisc_calls EXCEPT ![r] = log]
       ELSE /\ kodisc_records' = [kodisc_records EXCEPT ![t] = nxt[1]]
            /\ kodisc_run' = [kodisc_run EXCEPT ![r] = nxt[2]]
            /\ kodisc_calls' = [kodisc_calls EXCEPT ![r] =
                   IF nxt[2].pc = "inflight"
                   THEN Append(log, KodiscCall(i + 1, 1))
                   ELSE log]
    /\ UNCHANGED <<kodisc_tasks, envVars, gmVars, nonBgVars, response>>

\* POST /api/kodisc/{job_id}/cancel
cancel_kodisc_generation(j) ==
    /\ pipeline = "kodisc"
    /\ IF kodisc_tasks[j] = 0
       THEN /\ response' = Resp("kodisc_cancel", j, "404")
            /\ UNCHANGED kodisc_records
       ELSE LET t == kodisc_tasks[j] IN
            IF kodisc_records[t].status # "running"
            THEN /\ response' =
                       Resp("kodisc_cancel", j, kodisc_records[t].status)
                 /\ UNCHANGED kodisc_records
            ELSE /\ kodisc_records' =
                       [kodisc_records EXCEPT ![t] = RequestCancel(@)]
                 /\ response' = Resp("kodisc_cancel", j, "cancelling")
    /\ UNCHANGED <<kodisc_tasks, kodisc_run, kodisc_calls, envVars, gmVars,
                   nonBgVars>>

\* GET /api/kodisc/{job_id}/progress; saved: videos/generation_results.json
\* of a run of an earlier server process exists
get_kodisc_progress(j, saved) ==
    /\ pipeline = "kodisc"
    /\ response' =
           IF kodisc_tasks[j] = 0
           THEN IF saved THEN Resp("kodisc_progress", j, "complete")
                ELSE Resp("kodisc_progress", j, "404")
           ELSE Resp("kodisc_progress", j, kodisc_records[kodisc_tasks[j]].status)
    /\ UNCHANGED <<bgVars, nonBgVars>>

(* ---------------------------------------------------------------------- *)
(* ManimService._validate_and_fix                                          *)
(* ---------------------------------------------------------------------- *)
NoCode == MkCode(FALSE, FALSE, "none", {}, FALSE)

VfIdle == [pc |-> "idle", input |-> NoCode, code |-> NoCode,
           max_attempts |-> 0, attempt |-> 0,
           result |-> [code |-> NoCode, is_valid |-> FALSE, errors |-> <<>>]]

Event(kind, code, errors) == [kind |-> kind, code |-> code, errors |-> errors]

Exhausted_strict(attempt, max_attempts) == attempt > max_attempts

Exhausted_early(attempt, max_attempts) == attempt + 1 >= max_attempts

\* "if attempt >= max_attempts"
Exhausted(attempt, max_attempts) == attempt >= max_attempts

RepairErrors_accumulated(log, errors) ==
    IF \E x \in 1..Len(log) : log[x].kind = "request"
    THEN LET last == CHOOSE x \in 1..Len(log) :
                         /\ log[x].kind = "request"
                         /\ \A y \in x + 1..Len(log) : log[y].kind # "request"
         IN log[last].errors \o errors
    ELSE errors

\* the error list handed to _request_fix: that of the validation just made
RepairErrors(log, errors) == errors

GaveUp_first_errors(log, code, errors) ==
    [code |-> code, is_valid |-> FALSE,
     errors |-> IF log = <<>> THEN errors ELSE log[1].errors]

\* "return code, False, errors" once the attempts are used up; log holds the
\* earlier validation passes of the call
GaveUp(log, code, errors) ==
    [code |-> code, is_valid |-> FALSE, errors |-> errors]

\* the call of _validate_and_fix(code, expected_class, max_attempts)
validate_and_fix(code, max_attempts) ==
    /\ vf.pc = "idle"
    /\ vf' = IF skip_validation
             THEN [VfIdle EXCEPT !.pc = "returned", !.input = code,
                     !.code = code, !.max_attempts = max_attempts,
                     !.result = [code |-> code, is_valid |-> TRUE,
                                 errors |-> <<>>]]
             ELSE [VfIdle EXCEPT !.pc = "validate", !.input = code,
                     !.code = code, !.max_attempts = max_attempts]
    /\ UNCHANGED <<skip_validation, vf_log, nonRepairVars>>

\* one iteration of "for attempt in range(max_attempts + 1)" up to its return
\* or to the request sent by _request_fix
validate_and_fix_iteration ==
    LET errors == validate(vf.code, ExpectedClass)
        log1   == Append(vf_log, Event("validate", vf.code, errors))
    IN
    /\ vf.pc = "validate"
    /\ IF errors = <<>>
       THEN /\ vf' = [vf EXCEPT !.pc = "returned",
                        !.result = [code |-> vf.code, is_valid |-> TRUE,
                                    errors |-> <<>>]]
            /\ vf_log' = log1
       ELSE IF Exhausted(vf.attempt, vf.max_attempts)
       THEN /\ vf' = [vf EXCEPT !.pc = "returned",
                        !.result = GaveUp(vf_log, vf.code, errors)]
            /\ vf_log' = log1
       ELSE /\ vf' = [vf EXCEPT !.pc = "fixing"]
            /\ vf_log' = Append(log1, Event("request", vf.code,
                                            RepairErrors(vf_log, errors)))
    /\ UNCHANGED <<skip_validation, nonRepairVars>>

\* _request_fix returns the cleaned answer of the collaborator, which becomes
\* the code of the next iteration
request_fix_return(response_text) ==
    /\ vf.pc = "fixing"
    /\ vf' = [vf EXCEPT !.pc = "validate",
                        !.code = clean_code(response_text),
                        !.attempt = @ + 1]
    /\ vf_log' = Append(vf_log,
                        Event("candidate", clean_code(response_text), <<>>))
    /\ UNCHANGED <<skip_validation, nonRepairVars>>

\* client.messages.create raises: the exception leaves _validate_and_fix
request_fix_raise ==
    /\ vf.pc = "fixing"
    /\ vf' = [vf EXCEPT !.pc = "raised"]
    /\ UNCHANGED <<skip_validation, vf_log, nonRepairVars>>

(* ---------------------------------------------------------------------- *)
(* render_and_fix_slide                                                    *)
(* ---------------------------------------------------------------------- *)
RenderIds == 1..MaxRenderReqs

NoFile == [exists |-> FALSE, code |-> NoCode]

File(code) == [exists |-> TRUE, code |-> code]

\* an activation: pc is its position, code the local variable, sent the code
\* of the render_code call in flight, attempt the loop index
RfIdle == [pc |-> "idle", job |-> "j1", max_attempts |-> 0, attempt |-> 0,
           code |-> NoCode, sent |-> NoCode, status |-> "none",
           renders |-> 0, requests |-> 0, carried |-> <<>>]

\* result.error_message of the n-th render_code call of an activation, when
\* it failed: a message of its own, named by n
RenderError(n) == n

\* the error list handed to _request_fix after a failed render
RenderFixErrors(error_message) == <<error_message>>

AttemptsExhausted_late(attempt, max_attempts) == attempt > max_attempts

\* "if attempt >= max_attempts": the render attempts are used up
AttemptsExhausted(attempt, max_attempts) == attempt >= max_attempts

ShouldSave_always(attempt) == attempt >= 0

\* "if attempt > 0": the code was changed by a repair
ShouldSave(attempt) == attempt > 0

\* POST /api/render/{job_id}/{slide_id}/fix up to "await check_availability()"
render_and_fix_slide(q, j, max_attempts) ==
    /\ rf[q].pc = "idle"
    /\ \A p \in RenderIds : p < q => rf[p].pc # "idle"
    /\ rf' = [rf EXCEPT ![q] = [RfIdle EXCEPT !.pc = "avail", !.job = j,
                                   !.max_attempts = max_attempts]]
    /\ UNCHANGED <<slide_file, slide_manifest, nonRenderVars, response>>

\* from the return of check_availability() to the first render_code call
render_and_fix_slide_resume(q, available) ==
    LET j == rf[q].job
        end(st) == [rf EXCEPT ![q].pc = "done", ![q].status = st]
    IN
    /\ rf[q].pc = "avail"
    /\ IF ServiceUnavailable(available)
       THEN rf' = end("503") /\ response' = Resp("render_fix", j, "503")
       ELSE IF ~slide_file.exists
       THEN rf' = end("404") /\ response' = Resp("render_fix", j, "404")
       ELSE IF slide_manifest = "absent"
       THEN rf' = end("500") /\ response' = Resp("render_fix", j, "500")
       ELSE IF slide_manifest # "lists_slide"
       THEN rf' = end("404") /\ response' = Resp("render_fix", j, "404")
       ELSE /\ rf' = [rf EXCEPT ![q].pc = "render",
                                ![q].code = slide_file.code,
                                ![q].sent = slide_file.code,
                                ![q].renders = 1]
            /\ UNCHANGED response
    /\ UNCHANGED <<slide_file, slide_manifest, nonRenderVars>>

\* from the return of render_code that succeeded to the response
render_succeeded(q, io) ==
    LET j == rf[q].job IN
    /\ rf[q].pc = "render"
    /\ IF ShouldSave(rf[q].attempt)
       THEN IF io
            THEN /\ slide_file' = File(rf[q].code)
                 /\ rf' = [rf EXCEPT ![q].pc = "done", ![q].status = "success"]
                 /\ response' = Resp("render_fix", j, "success")
            ELSE \* code_path.write_text raises
                 /\ rf' = [rf EXCEPT ![q].pc = "done", ![q].status = "500"]
                 /\ response' = Resp("render_fix", j, "500")
                 /\ UNCHANGED slide_file
       ELSE /\ rf' = [rf EXCEPT ![q].pc = "done", ![q].status = "success"]
            /\ response' = Resp("render_fix", j, "success")
            /\ UNCHANGED slide_file
    /\ UNCHANGED <<slide_manifest, nonRenderVars>>

\* from the return of render_code that failed, through _request_fix, to the
\* next render_code call or to the "failed" response; fix is the answer of
\* the generation collaborator, fix_ok = FALSE when its call raises (a
\* timeout, an API error)
render_failed(q, fix_ok, response_text) ==
    LET j == rf[q].job
        error_message == RenderError(rf[q].renders)
    IN
    /\ rf[q].pc = "render"
    /\ IF AttemptsExhausted(rf[q].attempt, rf[q].max_attempts)
       THEN /\ fix_ok /\ response_text = CHOOSE t \in RawResponses : TRUE
            /\ rf' = [rf EXCEPT ![q].pc = "done", ![q].status = "failed"]
            /\ response' = Resp("render_fix", j, "failed")
       ELSE IF ~fix_ok
       THEN /\ response_text = CHOOSE t \in RawResponses : TRUE
            /\ rf' = [rf EXCEPT ![q].pc = "done", ![q].status = "500",
                                ![q].requests = @ + 1,
                                ![q].carried = RenderFixErrors(error_message)]
            /\ response' = Resp("render_fix", j, "500")
       ELSE /\ rf' = [rf EXCEPT ![q].code = clean_code(response_text),
                                ![q].sent = clean_code(response_text),
                                ![q].attempt = @ + 1,
                                ![q].requests = @ + 1,
                                ![q].carried = RenderFixErrors(error_message),
                                ![q].renders = @ + 1]
            /\ UNCHANGED response
    /\ UNCHANGED <<slide_file, slide_manifest, nonRenderVars>>

(* ---------------------------------------------------------------------- *)
(* Job / pipeline state model                                              *)
(* ---------------------------------------------------------------------- *)
NoJob == [status |-> "absent", step |-> "none", error |-> "none"]

\* JobStatus(job_id=..., status=..., step=...)
JobStatus(status, step) == [status |-> status, step |-> step, error |-> "none"]

\* jobs[job_id].status = "failed"; jobs[job_id].error = str(e)
Failed(job, e) == [job EXCEPT !.status = "failed", !.error = e]

HasMarkdown_from_cache(j) == jobs[j] # NoJob

\* markdown_path.exists() for outputs/{job}/paper.md
HasMarkdown(j) == paper_md[j]

\* plan_path.exists() for outputs/{job}/plan.json
HasPlan(j) == plan_json[j] # NoPlan

CompletedStep_from_cache(j, none) ==
    IF jobs[j] # NoJob THEN jobs[j].step
    ELSE IF manifest_json[j] # NoPlan THEN "manim_complete"
    ELSE IF plan_json[j] # NoPlan THEN "plan_complete"
    ELSE IF paper_md[j] THEN "ocr_complete"
    ELSE none

\* the furthest completed step list_jobs and restore_job derive from the
\* files of outputs/{job}; none is the label used when no file exists
CompletedStep(j, none) ==
    IF manifest_json[j] # NoPlan THEN "manim_complete"
    ELSE IF plan_json[j] # NoPlan THEN "plan_complete"
    ELSE IF paper_md[j] THEN "ocr_complete"
    ELSE none

\* the job_info dict list_jobs builds for one directory of outputs/
JobInfo(j) ==
    [has_markdown |-> paper_md[j],
     has_plan |-> plan_json[j] # NoPlan,
     has_manim |-> manifest_json[j] # NoPlan,
     completed_step |-> CompletedStep(j, "unknown"),
     slides_count |-> IF manifest_json[j] # NoPlan THEN manifest_json[j]
                      ELSE NoPlan,
     has_pdf |-> upload_pdf_file[j]]

\* GET /api/jobs
list_jobs ==
    /\ discovered' = [j \in {k \in JobIds : output_dir[k]} |-> JobInfo(j)]
    /\ response' = Resp("list_jobs", "j1", "200")
    /\ UNCHANGED <<jobs, storeVars, plan_json, ocr_inflight,
                   client_job, nonJobVars>>

Restored_keep_existing(j) ==
    IF jobs[j] # NoJob THEN jobs[j]
    ELSE JobStatus(IF CompletedStep(j, "uploaded") # "manim_complete"
                   THEN "processing" ELSE "complete",
                   CompletedStep(j, "uploaded"))

\* the JobStatus restore_job stores in jobs[job_id]
Restored(j) ==
    JobStatus(IF CompletedStep(j, "uploaded") # "manim_complete"
              THEN "processing" ELSE "complete",
              CompletedStep(j, "uploaded"))

\* POST /api/jobs/{job_id}/restore
restore_job(j) ==
    /\ j = client_job
    /\ IF ~output_dir[j]
       THEN /\ response' = Resp("restore", j, "404")
            /\ UNCHANGED jobs
       ELSE LET step == CompletedStep(j, "uploaded") IN
            /\ jobs' = [jobs EXCEPT ![j] = Restored(j)]
            /\ response' = Resp("restore", j, step)
    /\ UNCHANGED <<storeVars, plan_json, ocr_inflight, discovered,
                   client_job, nonJobVars>>

\* POST /api/upload: a new job id, the PDF stored under uploads/
upload_pdf(j) ==
    /\ j = client_job /\ j # DevJob
    /\ jobs[j] = NoJob /\ ~upload_pdf_file[j] /\ ~output_dir[j]
    /\ upload_pdf_file' = [upload_pdf_file EXCEPT ![j] = TRUE]
    /\ jobs' = [jobs EXCEPT ![j] = JobStatus("processing", "uploaded")]
    /\ response' = Resp("upload", j, "uploaded")
    /\ UNCHANGED <<output_dir, paper_md, manifest_json, code_files,
                   code_invalid, plan_json, ocr_inflight, discovered,
                   client_job, nonJobVars>>

\* POST /api/process/{job_id} up to "await ocr_service.pdf_to_markdown"
process_pdf(j) ==
    /\ j = client_job
    /\ IF jobs[j] = NoJob \/ ~upload_pdf_file[j]
       THEN /\ response' = Resp("process", j, "404")
            /\ UNCHANGED <<jobs, ocr_inflight>>
       ELSE /\ ocr_inflight[j] < MaxOcrInflight
            /\ jobs' = [jobs EXCEPT ![j].step = "ocr_processing"]
            /\ ocr_inflight' = [ocr_inflight EXCEPT ![j] = @ + 1]
            /\ UNCHANGED response
    /\ UNCHANGED <<storeVars, plan_json, discovered,
                   client_job, nonJobVars>>

\* process_pdf from the return of the OCR service; ocr_ok = FALSE when it
\* raised, io = FALSE when paper.md cannot be written
process_pdf_resume(j, ocr_ok, io) ==
    /\ j = client_job
    /\ ocr_inflight[j] > 0
    /\ ocr_inflight' = [ocr_inflight EXCEPT ![j] = @ - 1]
    /\ IF ~ocr_ok
       THEN /\ jobs' = [jobs EXCEPT ![j] = Failed(@, "ocr_error")]
            /\ response' = Resp("process", j, "500")
            /\ UNCHANGED <<output_dir, paper_md>>
       ELSE IF ~io
       THEN /\ output_dir' = [output_dir EXCEPT ![j] = TRUE]
            /\ jobs' = [jobs EXCEPT ![j] = Failed(@, "storage_error")]
            /\ response' = Resp("process", j, "500")
            /\ UNCHANGED paper_md
       ELSE /\ output_dir' = [output_dir EXCEPT ![j] = TRUE]
            /\ paper_md' = [paper_md EXCEPT ![j] = TRUE]
            /\ jobs' = [jobs EXCEPT ![j].step = "ocr_complete"]
            /\ response' = Resp("process", j, "ocr_complete")
    /\ UNCHANGED <<upload_pdf_file, manifest_json, code_files, code_invalid,
                   plan_json, discovered,
                   client_job, nonJobVars>>

\* POST /api/plan/{job_id}; the planning service blocks the event loop, so
\* the handler is one step. slides = 0: create_presentation_plan raised;
\* io = FALSE: plan.json cannot be written
create_plan(j, slides, io) ==
    LET entered == IF jobs[j] = NoJob THEN JobStatus("processing", "planning")
                   ELSE [jobs[j] EXCEPT !.step = "planning"]
    IN
    /\ j = client_job
    /\ IF ~HasMarkdown(j)
       THEN /\ slides = 0 /\ io
            /\ response' = Resp("plan", j, "404")
            /\ UNCHANGED <<jobs, plan_json>>
       ELSE IF slides = 0
       THEN /\ io
            /\ jobs' = [jobs EXCEPT ![j] = Failed(entered, "plan_error")]
            /\ response' = Resp("plan", j, "500")
            /\ UNCHANGED plan_json
       ELSE IF ~io
       THEN /\ jobs' = [jobs EXCEPT ![j] = Failed(entered, "storage_error")]
            /\ response' = Resp("plan", j, "500")
            /\ UNCHANGED plan_json
       ELSE /\ plan_json' = [plan_json EXCEPT ![j] = slides]
            /\ jobs' = [jobs EXCEPT ![j] =
                            [entered EXCEPT !.step = "plan_complete"]]
            /\ response' = Resp("plan", j, "plan_complete")
    /\ UNCHANGED <<storeVars, ocr_inflight, discovered,
                   client_job, nonJobVars>>

ManifestReached_before_loop(fail_at) == TRUE

\* generate_manim_code gets to "manifest_path.write_text", after its loop
\* over plan.slides, and the write succeeds
ManifestReached(fail_at) == fail_at = 0

\* POST /api/manim/{job_id}; generate_slide_code blocks the event loop, so
\* the handler is one step. fail_at = 0: nothing raises; 1 <= fail_at <= n:
\* generating or writing the code of slide fail_at raises; fail_at = n + 1:
\* writing manifest.json raises. invalid: the slides for which
\* generate_slide_code returns code that its repair loop could not make valid
generate_manim_code(j, fail_at, invalid) ==
    LET n == plan_json[j]
        entered == IF jobs[j] = NoJob
                   THEN JobStatus("processing", "manim_generation")
                   ELSE [jobs[j] EXCEPT !.step = "manim_generation"]
        written == IF fail_at = 0 THEN 1..n ELSE 1..(fail_at - 1)
    IN
    /\ j = client_job
    /\ IF ~HasPlan(j)
       THEN /\ fail_at = 0 /\ invalid = {}
            /\ response' = Resp("manim", j, "404")
            /\ UNCHANGED <<jobs, output_dir, manifest_json, code_files,
                           code_invalid>>
       ELSE /\ fail_at <= n + 1 /\ invalid \subseteq written
            /\ output_dir' = [output_dir EXCEPT ![j] = TRUE]
            /\ code_files' = [code_files EXCEPT ![j] = @ \cup written]
            /\ code_invalid' = [code_invalid EXCEPT ![j] =
                                    (@ \ written) \cup invalid]
            /\ manifest_json' = IF ManifestReached(fail_at)
                                THEN [manifest_json EXCEPT ![j] = n]
                                ELSE manifest_json
            /\ IF fail_at = 0
               THEN /\ jobs' = [jobs EXCEPT ![j] =
                                    [entered EXCEPT !.step = "manim_complete"]]
                    /\ response' = Resp("manim", j, "manim_complete")
               ELSE /\ jobs' = [jobs EXCEPT ![j] =
                                    Failed(entered, "manim_error")]
                    /\ response' = Resp("manim", j, "500")
    /\ UNCHANGED <<upload_pdf_file, paper_md, plan_json, ocr_inflight,
                   discovered,
                   client_job, nonJobVars>>

\* POST /api/dev/create-fixture: the sample paper.md, plan.json, code files
\* and manifest.json of job "dev-test", written in this order. fail_at = 0:
\* nothing raises; 1: writing paper.md raises; 2: plan.json; 2 + k: the code
\* file of slide k; DevSlides + 3: manifest.json
create_dev_fixture(fail_at) ==
    LET j == DevJob
        written == IF fail_at = 0 \/ fail_at = DevSlides + 3 THEN 1..DevSlides
                   ELSE 1..(fail_at - 3)
    IN
    /\ j = client_job
    /\ output_dir' = [output_dir EXCEPT ![j] = TRUE]
    /\ paper_md' = [paper_md EXCEPT ![j] = @ \/ fail_at # 1]
    /\ plan_json' = [plan_json EXCEPT ![j] =
                         IF fail_at \in {1, 2} THEN @ ELSE DevSlides]
    /\ code_files' = [code_files EXCEPT ![j] = @ \cup written]
    /\ code_invalid' = [code_invalid EXCEPT ![j] = @ \ written]
    /\ IF fail_at = 0
       THEN /\ manifest_json' = [manifest_json EXCEPT ![j] = DevSlides]
            /\ jobs' = [jobs EXCEPT ![j] =
                            JobStatus("complete", "manim_complete")]
            /\ response' = Resp("dev_fixture", j, "200")
       ELSE /\ response' = Resp("dev_fixture", j, "500")
            /\ UNCHANGED <<manifest_json, jobs>>
    /\ UNCHANGED <<upload_pdf_file, ocr_inflight, discovered,
                   client_job, nonJobVars>>

\* the server process stops and starts again: the in-memory dicts are empty,
\* requests in flight are gone, the files stay
restart ==
    /\ jobs' = [j \in JobIds |-> NoJob]
    /\ ocr_inflight' = [j \in JobIds |-> 0]
    /\ response' = NoResponse
    /\ discovered' = <<>>
    /\ UNCHANGED <<storeVars, plan_json,
                   client_job, nonJobVars>>

(* ---------------------------------------------------------------------- *)
(* Render and generate endpoints that answer when their work is done       *)
(* ---------------------------------------------------------------------- *)

\* an activation of one of the endpoints: pc is its position, slide the
\* slide of the request, i the loop index, calls the render_code or
\* generate_and_render calls it made, gm_manifest the length of its local
\* list gm_manifest
EpIdle == [pc |-> "idle", op |-> "none", job |-> "j1", slide |-> 0, i |-> 0,
           calls |-> 0, successful |-> 0, failed |-> 0, gm_manifest |-> 0,
           status |-> "none"]

\* a handler up to "await render_service.check_availability()"
EndpointRequest(op, j, k) ==
    /\ ep.pc \in {"idle", "done"}
    /\ ep' = [EpIdle EXCEPT !.pc = "avail", !.op = op, !.job = j, !.slide = k]
    /\ UNCHANGED <<gm_code_files, gm_manifest_json, response,
                   nonEndpointVars>>

\* the handler returns or raises HTTPException(st)
EndpointEnd(e, st) ==
    /\ ep' = [e EXCEPT !.pc = "done", !.status = st]
    /\ response' = Resp(e.op, e.job, st)

\* the handler awaits render_code or generate_and_render
EndpointCall(e) ==
    /\ ep' = [e EXCEPT !.pc = "call", !.calls = @ + 1]
    /\ UNCHANGED response

\* POST /api/render/{job_id}/{slide_id}
render_slide(j, k) == EndpointRequest("render_slide", j, k)

render_slide_resume(available) ==
    LET j == ep.job IN
    /\ ep.pc = "avail" /\ ep.op = "render_slide"
    /\ IF ServiceUnavailable(available) THEN EndpointEnd(ep, "503")
       ELSE IF ep.slide \notin code_files[j] THEN EndpointEnd(ep, "404")
       ELSE IF manifest_json[j] = NoPlan THEN EndpointEnd(ep, "404")
       ELSE IF ep.slide > manifest_json[j] THEN EndpointEnd(ep, "404")
       ELSE EndpointCall(ep)
    /\ UNCHANGED <<gm_code_files, gm_manifest_json, nonEndpointVars>>

render_slide_return(success) ==
    /\ ep.pc = "call" /\ ep.op = "render_slide"
    /\ EndpointEnd(ep, IF success THEN "success" ELSE "failed")
    /\ UNCHANGED <<gm_code_files, gm_manifest_json, nonEndpointVars>>

\* "for slide_info in manifest" from entry e.i up to the next render_code
\* call, or to the response
RECURSIVE RenderAllLoop(_)
RenderAllLoop(e) ==
    IF e.i > manifest_json[e.job]
    THEN EndpointEnd(e, "200")
    ELSE IF e.i \notin code_files[e.job]
    THEN RenderAllLoop([e EXCEPT !.i = @ + 1, !.failed = @ + 1])
    ELSE EndpointCall(e)

\* POST /api/render/{job_id}
render_all_slides(j) == EndpointRequest("render_all", j, 0)

render_all_slides_resume(available) ==
    /\ ep.pc = "avail" /\ ep.op = "render_all"
    /\ IF ServiceUnavailable(available) THEN EndpointEnd(ep, "503")
       ELSE IF manifest_json[ep.job] = NoPlan THEN EndpointEnd(ep, "404")
       ELSE RenderAllLoop([ep EXCEPT !.i = 1])
    /\ UNCHANGED <<gm_code_files, gm_manifest_json, nonEndpointVars>>

render_all_slides_return(success) ==
    /\ ep.pc = "call" /\ ep.op = "render_all"
    /\ RenderAllLoop(IF success
                     THEN [ep EXCEPT !.i = @ + 1, !.successful = @ + 1]
                     ELSE [ep EXCEPT !.i = @ + 1, !.failed = @ + 1])
    /\ UNCHANGED <<gm_code_files, gm_manifest_json, nonEndpointVars>>

\* POST /api/generate/{job_id}/{slide_number}
generate_video_from_plan(j, k) == EndpointRequest("generate_one", j, k)

generate_video_from_plan_resume(available) ==
    LET j == ep.job IN
    /\ ep.pc = "avail" /\ ep.op = "generate_one"
    /\ IF ServiceUnavailable(available) THEN EndpointEnd(ep, "503")
       ELSE IF plan_json[j] = NoPlan THEN EndpointEnd(ep, "404")
       ELSE IF ep.slide \notin 1..plan_json[j] THEN EndpointEnd(ep, "404")
       ELSE EndpointCall(ep)
    /\ UNCHANGED <<gm_code_files, gm_manifest_json, nonEndpointVars>>

\* has_code: result.code is not empty; io = FALSE: mkdir or write_text raises
generate_video_from_plan_return(success, has_code, io) ==
    LET j == ep.job IN
    /\ ep.pc = "call" /\ ep.op = "generate_one"
    /\ IF ~success
       THEN /\ has_code /\ io
            /\ EndpointEnd(ep, "failed")
            /\ UNCHANGED gm_code_files
       ELSE IF ~io
       THEN /\ has_code
            /\ EndpointEnd(ep, "500")
            /\ UNCHANGED gm_code_files
       ELSE /\ EndpointEnd(ep, "success")
            /\ gm_code_files' =
                   IF has_code
                   THEN [gm_code_files EXCEPT ![j] = @ \cup {ep.slide}]
                   ELSE gm_code_files
    /\ UNCHANGED <<gm_manifest_json, nonEndpointVars>>

\* POST /api/generate/{job_id}
generate_all_videos_from_plan(j) == EndpointRequest("generate_all", j, 0)

generate_all_videos_from_plan_resume(available, io) ==
    LET j == ep.job IN
    /\ ep.pc = "avail" /\ ep.op = "generate_all"
    /\ IF ServiceUnavailable(available) THEN io /\ EndpointEnd(ep, "503")
       ELSE IF plan_json[j] = NoPlan THEN io /\ EndpointEnd(ep, "404")
       ELSE IF plan_json[j] = 0 THEN io /\ EndpointEnd(ep, "400")
       ELSE IF ~io THEN EndpointEnd(ep, "500")
       ELSE EndpointCall([ep EXCEPT !.i = 1])
    /\ UNCHANGED <<gm_code_files, gm_manifest_json, nonEndpointVars>>

\* from the return of generate_and_render for slide ep.i to the next call,
\* or through the write of gm_manifest.json to the response
generate_all_videos_from_plan_return(success, has_code, io) ==
    LET j == ep.job
        e == IF success
             THEN [ep EXCEPT !.i = @ + 1, !.successful = @ + 1,
                             !.gm_manifest = @ + 1]
             ELSE [ep EXCEPT !.i = @ + 1, !.failed = @ + 1]
        saved == IF success /\ has_code
                 THEN [gm_code_files EXCEPT ![j] = @ \cup {ep.i}]
                 ELSE gm_code_files
    IN
    /\ ep.pc = "call" /\ ep.op = "generate_all"
    /\ ~success => has_code
    /\ IF ~io
       THEN \* a write_text raises
            /\ success /\ has_code
            /\ EndpointEnd(ep, "500")
            /\ UNCHANGED <<gm_code_files, gm_manifest_json>>
       ELSE IF e.i > plan_json[j]
       THEN /\ gm_code_files' = saved
            /\ gm_manifest_json' = [gm_manifest_json EXCEPT ![j] = e.gm_manifest]
            /\ EndpointEnd(e, "200")
       ELSE /\ gm_code_files' = saved
            /\ EndpointCall(e)
            /\ UNCHANGED gm_manifest_json
    /\ UNCHANGED nonEndpointVars

\* POST /api/generate/custom
generate_custom_video == EndpointRequest("generate_custom", "j1", 0)

generate_custom_video_resume(available) ==
    /\ ep.pc = "avail" /\ ep.op = "generate_custom"
    /\ IF ServiceUnavailable(available) THEN EndpointEnd(ep, "503")
       ELSE EndpointCall(ep)
    /\ UNCHANGED <<gm_code_files, gm_manifest_json, nonEndpointVars>>

generate_custom_video_return(success) ==
    /\ ep.pc = "call" /\ ep.op = "generate_custom"
    /\ EndpointEnd(ep, IF success THEN "success" ELSE "failed")
    /\ UNCHANGED <<gm_code_files, gm_manifest_json, nonEndpointVars>>

(* ---------------------------------------------------------------------- *)
(* PlanningService: the plan response, its repair and its parse            *)
(* ---------------------------------------------------------------------- *)

\* A text is a sequence of characters. The slide objects a response of the
\* model is made of: {"a": 1}, {"a": 2}, {"a": "},"} and
\* {"a": {"b": 1}, "c": 2}
Q == "\""

SlideA1 == <<"{", Q, "a", Q, ":", " ", "1", "}">>
SlideA2 == <<"{", Q, "a", Q, ":", " ", "2", "}">>
SlideBraceComma == <<"{", Q, "a", Q, ":", " ", Q, "}", ",", Q, "}">>

SlideNested == <<"{", Q, "a", Q, ":", " ", "{", Q, "b", Q, ":", " ", "1", "}",
                 ",", " ", Q, "c", Q, ":", " ", "2", "}">>

SlideObjects == {SlideA1, SlideA2, SlideBraceComma, SlideNested}

SlideSeqs(lo, hi) == UNION {[1..n -> SlideObjects] : n \in lo..hi}

\* {"s": [  -- the opened plan object and its opened slides list
PlanOpen == <<"{", Q, "s", Q, ":", " ", "[">>

RECURSIVE Join(_)
Join(objs) ==
    IF Len(objs) = 0 THEN <<>>
    ELSE IF Len(objs) = 1 THEN objs[1]
    ELSE objs[1] \o <<",", " ">> \o Join(Tail(objs))

\* the complete response that lists the slide objects objs
PlanText(objs) == PlanOpen \o Join(objs) \o <<"]", "}">>

\* the responses of the collaborator: complete ones, and every cut of one
Responses ==
    UNION {{SubSeq(PlanText(objs), 1, n) : n \in 1..Len(PlanText(objs))} :
              objs \in SlideSeqs(0, MaxResponseSlides)}

StopReasons == {"end_turn", "max_tokens"}

Count(text, c) == Cardinality({i \in 1..Len(text) : text[i] = c})

Repeat(c, n) == IF n <= 0 THEN <<>> ELSE [i \in 1..n |-> c]

\* text.rfind('},'): the 0-based index of the last "}," or -1
RFind(text) ==
    LET I == {i \in 1..Len(text) - 1 : text[i] = "}" /\ text[i + 1] = ","}
    IN IF I = {} THEN -1
       ELSE (CHOOSE i \in I : \A h \in I : h <= i) - 1

\* PlanningService._repair_truncated_json
repair_truncated_json(text) ==
    LET open_braces == Count(text, "{") - Count(text, "}")
        open_brackets == Count(text, "[") - Count(text, "]")
        last_complete == RFind(text)
    IN IF last_complete > 0
       THEN SubSeq(text, 1, last_complete + 1)
                \o <<"\n", " ", " ", "]", "\n", "}">>
       ELSE text \o Repeat(Q, Count(text, Q) % 2)
                 \o Repeat("}", open_braces)
                 \o Repeat("]", open_brackets)

\* json.loads on a text of objects, arrays, strings and numbers: a value is
\* [kind, text, items]; the members of an object are values of kind "member"
\* that hold the key in text and the value in items
JVal(kind, text, items) == [kind |-> kind, text |-> text, items |-> items]

JNull == JVal("null", <<>>, <<>>)

ParseFail == [ok |-> FALSE, pos |-> 0, val |-> JNull]

ParseOk(pos, val) == [ok |-> TRUE, pos |-> pos, val |-> val]

Whitespace == {" ", "\n"}

Digits == {"1", "2"}

\* the first position from i on that holds no whitespace
SkipWs(t, i) ==
    LET J == {j \in i..Len(t) : t[j] \notin Whitespace}
    IN IF J = {} THEN Len(t) + 1 ELSE CHOOSE j \in J : \A h \in J : j <= h

\* a string that opens at i: it ends at the next quote and holds no newline
ParseString(t, i) ==
    LET J == {j \in i + 1..Len(t) : t[j] = Q} IN
    IF J = {} THEN ParseFail
    ELSE LET j == CHOOSE j \in J : \A h \in J : j <= h
             body == SubSeq(t, i + 1, j - 1)
         IN IF \E h \in 1..Len(body) : body[h] = "\n" THEN ParseFail
            ELSE ParseOk(j + 1, JVal("string", body, <<>>))

ParseNumber(t, i) ==
    LET J == {j \in i..Len(t) : t[j] \notin Digits}
        e == IF J = {} THEN Len(t) + 1 ELSE CHOOSE j \in J : \A h \in J : j <= h
    IN ParseOk(e, JVal("number", SubSeq(t, i, e - 1), <<>>))

RECURSIVE ParseValue(_, _)
RECURSIVE ParseElements(_, _, _)
RECURSIVE ParseMembers(_, _, _)

ParseValue(t, i0) ==
    LET i == SkipWs(t, i0) IN
    IF i > Len(t) THEN ParseFail
    ELSE IF t[i] = Q THEN ParseString(t, i)
    ELSE IF t[i] \in Digits THEN ParseNumber(t, i)
    ELSE IF t[i] = "["
    THEN LET j == SkipWs(t, i + 1) IN
         IF j <= Len(t) /\ t[j] = "]"
         THEN ParseOk(j + 1, JVal("array", <<>>, <<>>))
         ELSE ParseElements(t, j, <<>>)
    ELSE IF t[i] = "{"
    THEN LET j == SkipWs(t, i + 1) IN
         IF j <= Len(t) /\ t[j] = "}"
         THEN ParseOk(j + 1, JVal("object", <<>>, <<>>))
         ELSE ParseMembers(t, j, <<>>)
    ELSE ParseFail

ParseElements(t, i, acc) ==
    LET r == ParseValue(t, i) IN
    IF ~r.ok THEN ParseFail
    ELSE LET j == SkipWs(t, r.pos) IN
         IF j > Len(t) THEN ParseFail
         ELSE IF t[j] = "," THEN ParseElements(t, j + 1, Append(acc, r.val))
         ELSE IF t[j] = "]"
         THEN ParseOk(j + 1, JVal("array", <<>>, Append(acc, r.val)))
         ELSE ParseFail

ParseMembers(t, i, acc) ==
    LET k == SkipWs(t, i) IN
    IF k > Len(t) \/ t[k] # Q THEN ParseFail
    ELSE LET key == ParseString(t, k) IN
         IF ~key.ok THEN ParseFail
         ELSE LET c == SkipWs(t, key.pos) IN
              IF c > Len(t) \/ t[c] # ":" THEN ParseFail
              ELSE LET r == ParseValue(t, c + 1) IN
                   IF ~r.ok THEN ParseFail
                   ELSE LET j == SkipWs(t, r.pos)
                            m == JVal("member", key.val.text, <<r.val>>)
                        IN IF j > Len(t) THEN ParseFail
                           ELSE IF t[j] = ","
                           THEN ParseMembers(t, j + 1, Append(acc, m))
                           ELSE IF t[j] = "}"
                           THEN ParseOk(j + 1,
                                    JVal("object", <<>>, Append(acc, m)))
                           ELSE ParseFail

\* json.loads(response_text.strip())
json_loads(text) ==
    LET r == ParseValue(text, 1) IN
    IF r.ok /\ SkipWs(text, r.pos) > Len(text) THEN r ELSE ParseFail

\* plan_data["slides"]: the values of the member "s", <<>> without one
Slides(plan_data) ==
    LET M == {h \in 1..Len(plan_data.items) :
                 plan_data.items[h].text = <<"s">>}
    IN IF plan_data.kind # "object" \/ M = {} THEN <<>>
       ELSE plan_data.items[CHOOSE h \in M : \A g \in M : g <= h].items

\* PresentationPlan(**plan_data) accepts: the schema reduced to the member
\* the texts of the model carry, a list "s" of slide objects
PresentationPlan(plan_data) ==
    /\ plan_data.kind = "object"
    /\ Slides(plan_data) # <<>>
    /\ Slides(plan_data)[1].kind = "array"
    /\ \A h \in 1..Len(Slides(plan_data)[1].items) :
           Slides(plan_data)[1].items[h].kind = "object"

NeedsRepair_any_stop(stop_reason) == TRUE

\* if response.stop_reason == "max_tokens"
NeedsRepair(stop_reason) == stop_reason = "max_tokens"

\* the record of the planning request of a behaviour
NoPlanning == [raw |-> <<>>, stop_reason |-> "none", text |-> <<>>,
               calls |-> 0, repairs |-> 0, outcome |-> "none",
               error |-> "none", plan_data |-> JNull]

\* PlanningService.create_presentation_plan from the response of
\* client.messages.create to its return or raise
create_presentation_plan(response_text, stop_reason) ==
    LET repaired == NeedsRepair(stop_reason)
        text == IF repaired THEN repair_truncated_json(response_text)
                ELSE response_text
        r == json_loads(text)
        called == [NoPlanning EXCEPT !.raw = response_text,
                                     !.stop_reason = stop_reason,
                                     !.text = text, !.calls = 1,
                                     !.repairs = IF repaired THEN 1 ELSE 0]
    IN IF ~r.ok
       THEN [called EXCEPT
                !.outcome = "raised",
                !.error = "Failed to parse presentation plan: JSONDecodeError"]
       ELSE IF ~PresentationPlan(r.val)
       THEN [called EXCEPT !.outcome = "raised", !.error = "ValidationError",
                           !.plan_data = r.val]
       ELSE [called EXCEPT !.outcome = "plan", !.plan_data = r.val]

\* POST /api/plan/{job_id} with the answer plan_reply of the planning
\* collaborator; io = FALSE: plan.json cannot be written
create_plan_from_reply(j, io) ==
    LET entered == IF jobs[j] = NoJob THEN JobStatus("processing", "planning")
                   ELSE [jobs[j] EXCEPT !.step = "planning"]
        p == create_presentation_plan(plan_reply.text, plan_reply.stop_reason)
    IN
    /\ j = client_job
    /\ IF ~HasMarkdown(j)
       THEN /\ io
            /\ response' = Resp("plan", j, "404")
            /\ planning' = NoPlanning
            /\ UNCHANGED <<jobs, plan_json>>
       ELSE IF p.outcome = "raised"
       THEN /\ io
            /\ jobs' = [jobs EXCEPT ![j] = Failed(entered, p.error)]
            /\ response' = Resp("plan", j, "500")
            /\ planning' = p
            /\ UNCHANGED plan_json
       ELSE IF ~io
       THEN /\ jobs' = [jobs EXCEPT ![j] = Failed(entered, "storage_error")]
            /\ response' = Resp("plan", j, "500")
            /\ planning' = p
            /\ UNCHANGED plan_json
       ELSE /\ plan_json' =
                   [plan_json EXCEPT ![j] = Len(Slides(p.plan_data)[1].items)]
            /\ jobs' = [jobs EXCEPT ![j] =
                            [entered EXCEPT !.step = "plan_complete"]]
            /\ response' = Resp("plan", j, "plan_complete")
            /\ planning' = p
    /\ UNCHANGED <<storeVars, ocr_inflight, discovered, client_job,
                   kodisc_configured, pipeline, gmVars, kodiscVars,
                   repairVars, renderVars, endpointVars, plan_reply, vcall>>

(* ---------------------------------------------------------------------- *)
(* Specifications                                                          *)
(* ---------------------------------------------------------------------- *)
\* the largest number of slides a plan.json of the pipeline model holds
MaxPlan == IF NumSlides > DevSlides THEN NumSlides ELSE DevSlides

InitBgVars ==
    /\ generation_tasks = [j \in Jobs |-> 0]
    /\ gm_records = <<>>
    /\ gm_req = [s \in StartIds |-> [pc |-> "idle", job |-> "j1"]]
    /\ gm_run = [s \in StartIds |-> NoRun]
    /\ gm_calls = [s \in StartIds |-> <<>>]
    /\ kodisc_tasks = [j \in Jobs |-> 0]
    /\ kodisc_records = <<>>
    /\ kodisc_run = [s \in StartIds |-> NoRun]
    /\ kodisc_calls = [s \in StartIds |-> <<>>]
    /\ response = NoResponse

InitRepairVars ==
    /\ skip_validation = FALSE
    /\ vf = VfIdle
    /\ vf_log = <<>>

InitRenderVars ==
    /\ slide_file = NoFile
    /\ slide_manifest = "absent"
    /\ rf = [q \in RenderIds |-> RfIdle]

InitServiceVars ==
    /\ plan_reply = [text |-> PlanText(<<>>), stop_reason |-> "end_turn"]
    /\ planning = NoPlanning
    /\ vcall = NoCall(GoodCode, TRUE, TRUE)

InitEndpointVars ==
    /\ ep = EpIdle
    /\ gm_code_files = [j \in JobIds |-> {}]
    /\ gm_manifest_json = [j \in JobIds |-> NoPlan]

InitJobVars ==
    /\ jobs = [j \in JobIds |-> NoJob]
    /\ upload_pdf_file = [j \in JobIds |-> FALSE]
    /\ output_dir = [j \in JobIds |-> FALSE]
    /\ paper_md = [j \in JobIds |-> FALSE]
    /\ manifest_json = [j \in JobIds |-> NoPlan]
    /\ code_files = [j \in JobIds |-> {}]
    /\ code_invalid = [j \in JobIds |-> {}]
    /\ ocr_inflight = [j \in JobIds |-> 0]
    /\ discovered = <<>>
    /\ client_job = "j1"

InitBg ==
    /\ plan_json \in [Jobs -> {NoPlan, 0, NumSlides}]
    /\ kodisc_configured \in BOOLEAN
    /\ pipeline \in {"generative_manim", "kodisc"}
    /\ InitBgVars
    /\ InitRepairVars
    /\ InitRenderVars
    /\ InitEndpointVars
    /\ InitServiceVars
    \* the job of a plan.json has the record create_plan left
    /\ jobs = [j \in JobIds |->
                 IF j \in Jobs /\ plan_json[j] # NoPlan
                 THEN JobStatus("processing", "plan_complete") ELSE NoJob]
    /\ upload_pdf_file = [j \in JobIds |-> j \in Jobs]
    /\ output_dir = [j \in JobIds |-> j \in Jobs /\ plan_json[j] # NoPlan]
    /\ paper_md = [j \in JobIds |-> j \in Jobs /\ plan_json[j] # NoPlan]
    /\ manifest_json = [j \in JobIds |-> NoPlan]
    /\ code_files = [j \in JobIds |-> {}]
    /\ code_invalid = [j \in JobIds |-> {}]
    /\ ocr_inflight = [j \in JobIds |-> 0]
    /\ discovered = <<>>
    /\ client_job = "j1"

NextBg ==
    \/ \E s \in StartIds, j \in Jobs : start_video_generation(s, j)
    \/ \E s \in StartIds, a \in BOOLEAN : start_video_generation_resume(s, a)
    \/ \E r \in StartIds, io \in BOOLEAN : generate_videos_background(r, io)
    \/ \E r \in StartIds, ok \in BOOLEAN, io \in BOOLEAN :
           generate_videos_background_resume(r, ok, io)
    \/ \E j \in Jobs : cancel_video_generation(j)
    \/ \E j \in Jobs : get_generation_progress(j)
    \/ \E j \in Jobs, saved \in BOOLEAN : get_kodisc_progress(j, saved)
    \/ \E j \in Jobs : start_kodisc_generation(j)
    \/ \E r \in StartIds, io \in BOOLEAN :
           generate_kodisc_videos_background(r, io)
    \/ \E r \in StartIds, ok \in BOOLEAN, io \in BOOLEAN :
           generate_kodisc_videos_background_resume(r, ok, io)
    \/ \E j \in Jobs : cancel_kodisc_generation(j)

SpecBg == InitBg /\ [][NextBg]_vars

\* the event loop runs every background task it was handed, and every
\* collaborator call of a run returns (with success, failure or an exception)
FairBg ==
    \A r \in StartIds :
        /\ WF_vars(\E io \in BOOLEAN : generate_videos_background(r, io))
        /\ WF_vars(\E ok \in BOOLEAN, io \in BOOLEAN :
                      generate_videos_background_resume(r, ok, io))
        /\ WF_vars(\E io \in BOOLEAN :
                      generate_kodisc_videos_background(r, io))
        /\ WF_vars(\E ok \in BOOLEAN, io \in BOOLEAN :
                      generate_kodisc_videos_background_resume(r, ok, io))

SpecBgLive == SpecBg /\ FairBg

InitRepair ==
    /\ plan_json = [j \in Jobs |-> NoPlan]
    /\ kodisc_configured = FALSE
    /\ pipeline = "generative_manim"
    /\ InitBgVars
    /\ InitRepairVars
    /\ InitRenderVars
    /\ InitEndpointVars
    /\ InitServiceVars
    /\ InitJobVars

NextRepair ==
    \/ \E c \in InputCodes, m \in 0..MaxAttempts : validate_and_fix(c, m)
    \/ validate_and_fix_iteration
    \/ \E t \in RawResponses : request_fix_return(t)
    \/ request_fix_raise

SpecRepair == InitRepair /\ [][NextRepair]_vars

\* the slide's code file and manifest as generate_manim_code (or the dev
\* fixture) left them, or not yet written
InitRender ==
    /\ plan_json = [j \in Jobs |-> NoPlan]
    /\ kodisc_configured = FALSE
    /\ pipeline = "generative_manim"
    /\ InitBgVars
    /\ InitRepairVars
    /\ InitJobVars
    /\ InitEndpointVars
    /\ InitServiceVars
    /\ slide_file \in {NoFile} \cup {File(c) : c \in {GoodCode, SyntaxBad}}
    /\ slide_manifest \in {"absent", "other", "lists_slide"}
    /\ rf = [q \in RenderIds |-> RfIdle]

NextRender ==
    \/ \E q \in RenderIds, j \in Jobs, m \in 0..MaxAttempts :
           render_and_fix_slide(q, j, m)
    \/ \E q \in RenderIds, a \in BOOLEAN : render_and_fix_slide_resume(q, a)
    \/ \E q \in RenderIds, io \in BOOLEAN : render_succeeded(q, io)
    \/ \E q \in RenderIds, ok \in BOOLEAN, t \in RawResponses :
           render_failed(q, ok, t)

SpecRender == InitRender /\ [][NextRender]_vars

\* an empty store and an empty jobs dict
InitJobs ==
    /\ plan_json = [j \in JobIds |-> NoPlan]
    /\ kodisc_configured = FALSE
    /\ pipeline = "generative_manim"
    /\ InitBgVars
    /\ InitRepairVars
    /\ InitRenderVars
    /\ InitEndpointVars
    /\ InitServiceVars
    /\ jobs = [j \in JobIds |-> NoJob]
    /\ upload_pdf_file = [j \in JobIds |-> FALSE]
    /\ output_dir = [j \in JobIds |-> FALSE]
    /\ paper_md = [j \in JobIds |-> FALSE]
    /\ manifest_json = [j \in JobIds |-> NoPlan]
    /\ code_files = [j \in JobIds |-> {}]
    /\ code_invalid = [j \in JobIds |-> {}]
    /\ ocr_inflight = [j \in JobIds |-> 0]
    /\ discovered = <<>>
    /\ client_job \in JobIds

NextJobs ==
    \/ list_jobs
    \/ \E j \in JobIds : restore_job(j)
    \/ \E j \in JobIds : upload_pdf(j)
    \/ \E j \in JobIds : process_pdf(j)
    \/ \E j \in JobIds, ok \in BOOLEAN, io \in BOOLEAN :
           process_pdf_resume(j, ok, io)
    \/ \E j \in JobIds, n \in 0..NumSlides, io \in BOOLEAN :
           create_plan(j, n, io)
    \/ \E j \in JobIds, k \in 0..MaxPlan + 1, invalid \in SUBSET (1..MaxPlan) :
           generate_manim_code(j, k, invalid)
    \/ \E k \in 0..DevSlides + 3 : create_dev_fixture(k)
    \/ restart

SpecJobs == InitJobs /\ [][NextJobs]_vars

\* planning for a job whose paper.md process_pdf wrote (its record kept, or
\* lost by a restart), or that has no paper.md
InitPlan ==
    /\ plan_json = [j \in JobIds |-> NoPlan]
    /\ kodisc_configured = FALSE
    /\ pipeline = "generative_manim"
    /\ InitBgVars
    /\ InitRepairVars
    /\ InitRenderVars
    /\ InitEndpointVars
    /\ vcall = NoCall(GoodCode, TRUE, TRUE)
    /\ planning = NoPlanning
    /\ plan_reply \in [text : Responses, stop_reason : StopReasons]
    /\ \E md \in BOOLEAN, kept \in BOOLEAN :
           /\ ~md => ~kept
           /\ jobs = [j \in JobIds |->
                        IF j \in Jobs /\ kept
                        THEN JobStatus("processing", "ocr_complete")
                        ELSE NoJob]
           /\ output_dir = [j \in JobIds |-> j \in Jobs /\ md]
           /\ paper_md = [j \in JobIds |-> j \in Jobs /\ md]
    /\ upload_pdf_file = [j \in JobIds |-> j \in Jobs]
    /\ manifest_json = [j \in JobIds |-> NoPlan]
    /\ code_files = [j \in JobIds |-> {}]
    /\ code_invalid = [j \in JobIds |-> {}]
    /\ ocr_inflight = [j \in JobIds |-> 0]
    /\ discovered = <<>>
    /\ client_job = "j1"

NextPlan ==
    \E j \in Jobs, io \in BOOLEAN : create_plan_from_reply(j, io)

SpecPlan == InitPlan /\ [][NextPlan]_vars

\* the texts validate may be handed: any combination of the features, with
\* at most one class of a name
ValidatedCodes ==
    {MkCode(f, sy, im, cl, d) :
        f \in BOOLEAN, sy \in BOOLEAN, im \in {"none", "inside", "first"},
        cl \in {cs \in SUBSET {Class(n, c) : n \in {ExpectedClass, "Helper"},
                                               c \in BOOLEAN} :
                   \A x, y \in cs : x.name = y.name => x = y},
        d \in BOOLEAN}

InitValidator ==
    /\ plan_json = [j \in Jobs |-> NoPlan]
    /\ kodisc_configured = FALSE
    /\ pipeline = "generative_manim"
    /\ InitBgVars
    /\ InitRepairVars
    /\ InitRenderVars
    /\ InitJobVars
    /\ InitEndpointVars
    /\ planning = NoPlanning
    /\ plan_reply = [text |-> PlanText(<<>>), stop_reason |-> "end_turn"]
    /\ vcall \in {NoCall(c, skip, ok) :
                     c \in ValidatedCodes, skip \in BOOLEAN, ok \in BOOLEAN}

NextValidator == validator_validate

SpecValidator == InitValidator /\ [][NextValidator]_vars

\* the two repair loops; pipeline is the loop a behaviour drives: the static
\* one of generate_slide_code ("repair") or the one of render_and_fix_slide
InitRepairLoops ==
    /\ plan_json = [j \in Jobs |-> NoPlan]
    /\ kodisc_configured = FALSE
    /\ pipeline \in {"repair", "render_fix"}
    /\ InitBgVars
    /\ InitRepairVars
    /\ InitJobVars
    /\ InitEndpointVars
    /\ InitServiceVars
    /\ slide_file \in {NoFile} \cup {File(c) : c \in {GoodCode, SyntaxBad}}
    /\ slide_manifest \in {"absent", "other", "lists_slide"}
    /\ pipeline = "repair" => slide_file = NoFile /\ slide_manifest = "absent"
    /\ rf = [q \in RenderIds |-> RfIdle]

NextRepairLoops ==
    \/ \E c \in InputCodes, m \in 0..MaxAttempts :
           pipeline = "repair" /\ validate_and_fix(c, m)
    \/ validate_and_fix_iteration
    \/ \E t \in RawResponses : request_fix_return(t)
    \/ request_fix_raise
    \/ \E q \in RenderIds, j \in Jobs, m \in 0..MaxAttempts :
           pipeline = "render_fix" /\ render_and_fix_slide(q, j, m)
    \/ \E q \in RenderIds, a \in BOOLEAN : render_and_fix_slide_resume(q, a)
    \/ \E q \in RenderIds, io \in BOOLEAN : render_succeeded(q, io)
    \/ \E q \in RenderIds, ok \in BOOLEAN, t \in RawResponses :
           render_failed(q, ok, t)

SpecRepairLoops == InitRepairLoops /\ [][NextRepairLoops]_vars

\* the operations that need the render service; pipeline is the family of
\* them a behaviour drives, and the store holds what the handlers of that
\* family read: a plan.json for the generate handlers and the background
\* start, the slide files and manifest generate_manim_code wrote for the
\* render handlers
InitRenderDependent ==
    /\ pipeline \in {"generative_manim", "render_fix", "render", "generate"}
    /\ kodisc_configured = FALSE
    /\ InitBgVars
    /\ InitRepairVars
    /\ InitEndpointVars
    /\ InitServiceVars
    /\ plan_json \in [Jobs -> {NoPlan, 0, NumSlides}]
    /\ pipeline \in {"render_fix", "render"} =>
           plan_json = [j \in Jobs |-> NumSlides]
    /\ slide_file \in {NoFile} \cup {File(c) : c \in {GoodCode, SyntaxBad}}
    /\ slide_manifest \in {"absent", "other", "lists_slide"}
    /\ pipeline # "render_fix" =>
           slide_file = NoFile /\ slide_manifest = "absent"
    /\ rf = [q \in RenderIds |-> RfIdle]
    /\ \E n \in {NoPlan, NumSlides} :
           /\ pipeline # "render" => n = NoPlan
           /\ manifest_json = [j \in JobIds |->
                                 IF j \in Jobs THEN n ELSE NoPlan]
           /\ \E k \in 0..NumSlides :
                  /\ n # NoPlan => k = NumSlides
                  /\ pipeline # "render" => k = 0
                  /\ code_files = [j \in JobIds |->
                                     IF j \in Jobs THEN 1..k ELSE {}]
    /\ jobs = [j \in JobIds |->
                 IF j \in Jobs /\ plan_json[j] # NoPlan
                 THEN JobStatus("processing", "plan_complete") ELSE NoJob]
    /\ upload_pdf_file = [j \in JobIds |-> j \in Jobs]
    /\ output_dir = [j \in JobIds |-> j \in Jobs /\ plan_json[j] # NoPlan]
    /\ paper_md = [j \in JobIds |-> j \in Jobs /\ plan_json[j] # NoPlan]
    /\ code_invalid = [j \in JobIds |-> {}]
    /\ ocr_inflight = [j \in JobIds |-> 0]
    /\ discovered = <<>>
    /\ client_job = "j1"

NextRenderDependent ==
    \/ \E s \in StartIds, j \in Jobs : start_video_generation(s, j)
    \/ \E s \in StartIds, a \in BOOLEAN : start_video_generation_resume(s, a)
    \/ \E r \in StartIds, io \in BOOLEAN : generate_videos_background(r, io)
    \/ \E r \in StartIds, ok \in BOOLEAN, io \in BOOLEAN :
           generate_videos_background_resume(r, ok, io)
    \/ \E j \in Jobs : cancel_video_generation(j)
    \/ \E q \in RenderIds, j \in Jobs, m \in 0..MaxAttempts :
           pipeline = "render_fix" /\ render_and_fix_slide(q, j, m)
    \/ \E q \in RenderIds, a \in BOOLEAN : render_and_fix_slide_resume(q, a)
    \/ \E q \in RenderIds, io \in BOOLEAN : render_succeeded(q, io)
    \/ \E q \in RenderIds, ok \in BOOLEAN, t \in RawResponses :
           render_failed(q, ok, t)
    \/ \E j \in Jobs, k \in 1..NumSlides + 1 :
           pipeline = "render" /\ render_slide(j, k)
    \/ \E a \in BOOLEAN : render_slide_resume(a)
    \/ \E ok \in BOOLEAN : render_slide_return(ok)
    \/ \E j \in Jobs : pipeline = "render" /\ render_all_slides(j)
    \/ \E a \in BOOLEAN : render_all_slides_resume(a)
    \/ \E ok \in BOOLEAN : render_all_slides_return(ok)
    \/ \E j \in Jobs, k \in 1..NumSlides + 1 :
           pipeline = "generate" /\ generate_video_from_plan(j, k)
    \/ \E a \in BOOLEAN : generate_video_from_plan_resume(a)
    \/ \E ok \in BOOLEAN, c \in BOOLEAN, io \in BOOLEAN :
           generate_video_from_plan_return(ok, c, io)
    \/ \E j \in Jobs : pipeline = "generate" /\ generate_all_videos_from_plan(j)
    \/ \E a \in BOOLEAN, io \in BOOLEAN :
           generate_all_videos_from_plan_resume(a, io)
    \/ \E ok \in BOOLEAN, c \in BOOLEAN, io \in BOOLEAN :
           generate_all_videos_from_plan_return(ok, c, io)
    \/ pipeline = "generate" /\ generate_custom_video
    \/ \E a \in BOOLEAN : generate_custom_video_resume(a)
    \/ \E ok \in BOOLEAN : generate_custom_video_return(ok)

SpecRenderDependent == InitRenderDependent /\ [][NextRenderDependent]_vars

(* ---------------------------------------------------------------------- *)
(* Claims on the background managers                                       *)
(* ---------------------------------------------------------------------- *)

\* C1: in both managers a start request that finds the job's task record
\* `running` answers already_running, creates no record, schedules no run and
\* leaves the record (status, counters, results, cancel flag) as it was.
C1_StartWhileRunningRejected ==
    [][\A j \in Jobs :
         /\ \A s \in StartIds :
              ( /\ generation_tasks[j] # 0
                /\ gm_records[generation_tasks[j]].status = "running"
                /\ start_video_generation(s, j) )
              => /\ response' = Resp("gm_start", j, "already_running")
                 /\ UNCHANGED <<generation_tasks, gm_records, gm_req, gm_run>>
         /\ ( /\ kodisc_configured
              /\ kodisc_tasks[j] # 0
              /\ kodisc_records[kodisc_tasks[j]].status = "running"
              /\ start_kodisc_generation(j) )
            => /\ response' = Resp("kodisc_start", j, "already_running")
               /\ UNCHANGED <<kodisc_tasks, kodisc_records, kodisc_run>>
      ]_vars

\* a start request was answered already_running while a run that has
\* completed a slide is in progress
C1_Witness ==
    \E j \in Jobs :
        /\ response = Resp("gm_start", j, "already_running")
        /\ generation_tasks[j] # 0
        /\ gm_records[generation_tasks[j]].status = "running"
        /\ gm_records[generation_tasks[j]].completed_slides >= 1

\* C2: whatever the interleaving of concurrent start requests for one job, at
\* most one background run of that job is executing at any time, and no task
\* record is mutated by two runs.
C2_AtMostOneRunPerJob ==
    \A r1, r2 \in StartIds :
        ( /\ r1 # r2
          /\ gm_run[r1].pc = "inflight"
          /\ gm_run[r2].pc = "inflight" )
        => /\ gm_run[r1].job # gm_run[r2].job
           /\ gm_run[r1].task # gm_run[r2].task

\* C3: a Generative-Manim run that finds the cancel flag set after k of its n
\* slides (k < n) ends `cancelled` with exactly k results, completed_slides = k
\* and no generate_and_render call for the slides k+1..n.
C3_GmCancelKeepsKResults ==
    \A r \in StartIds :
        gm_run[r].stop = "cancelled" =>
            LET rec == gm_records[gm_run[r].task]
                k   == gm_run[r].i
            IN /\ k < gm_run[r].n
               /\ rec.status = "cancelled"
               /\ Len(rec.results) = k
               /\ rec.completed_slides = k
               /\ \A q \in StartIds :
                      gm_run[q].task = gm_run[r].task =>
                          \A x \in 1..Len(gm_calls[q]) : gm_calls[q][x] <= k

\* C4: a Kodisc run that finds the cancel flag set after k of its n slides
\* (k < n) ends `cancelled` and stays so, with exactly k results and no
\* generate_video call for the slides k+1..n.
C4_KodiscCancelEndsCancelled ==
    \A r \in StartIds :
        kodisc_run[r].stop = "cancelled" =>
            LET rec == kodisc_records[kodisc_run[r].task]
                k   == kodisc_run[r].i
            IN /\ k < kodisc_run[r].n
               /\ rec.status = "cancelled"
               /\ Len(rec.results) = k
               /\ \A x \in 1..Len(kodisc_calls[r]) :
                      kodisc_calls[r][x].slide_number <= k

\* the generate_video calls run r issued for slide u, in order
CallsFor(r, u) ==
    SelectSeq(kodisc_calls[r], LAMBDA c : c.slide_number = u)

\* C5: for every slide of a Kodisc run the prompts are tried in the order
\* primary, middle, fallback; a later one only after every earlier one failed,
\* none after a success; the recorded prompt_used is the tier that succeeded.
C5_TierOrder ==
    \A r \in StartIds : \A u \in 1..kodisc_run[r].n :
        LET cs  == CallsFor(r, u)
            rec == kodisc_records[kodisc_run[r].task]
            ladder == <<"primary", "middle", "fallback">>
        IN /\ Len(cs) <= 3
           /\ \A x \in 1..Len(cs) :
                  /\ cs[x].tier = ladder[x]
                  /\ x < Len(cs) => cs[x].outcome = "failed"
           /\ u <= Len(rec.results) =>
                  /\ Len(cs) >= 1
                  /\ rec.results[u].slide_number = u
                  /\ rec.results[u].status = "success" =>
                         /\ cs[Len(cs)].outcome = "success"
                         /\ rec.results[u].prompt_used = cs[Len(cs)].tier
                         /\ rec.results[u].attempts = Len(cs)
                  /\ rec.results[u].status = "failed" =>
                         /\ Len(cs) = 3
                         /\ cs[3].outcome = "failed"

\* primary and middle failed, fallback succeeded: three calls, prompt_used
\* fallback
C5_Witness ==
    \E r \in StartIds :
        /\ kodisc_run[r].task # 0
        /\ LET rec == kodisc_records[kodisc_run[r].task] IN
           /\ Len(rec.results) >= 1
           /\ rec.results[1].status = "success"
           /\ rec.results[1].prompt_used = "fallback"
           /\ Len(CallsFor(r, 1)) = 3

(* ---------------------------------------------------------------------- *)
(* Claims on the static repair loop                                        *)
(* ---------------------------------------------------------------------- *)
\* the events of one kind of the activation, in order
Events(kind) == SelectSeq(vf_log, LAMBDA e : e.kind = kind)

\* C6: with max_attempts = m, if the initial code and the first k-1 repaired
\* candidates fail validation and the k-th passes (1 <= k <= m), the loop
\* returns that k-th candidate with is_valid = True and no errors after
\* exactly k repair requests; it never gives up while attempts remain.
C6_RepairReturnsPassingCandidate ==
    vf.pc = "returned" =>
        LET V == Events("validate")
            R == Events("request")
            K == Events("candidate")
            k == Len(K)
        IN /\ Len(V) = k + 1
           /\ Len(R) = k
           /\ k <= vf.max_attempts
           /\ \A x \in 1..k : V[x].errors # <<>>
           /\ V[k + 1].code = (IF k = 0 THEN vf.input ELSE K[k].code)
           /\ V[k + 1].errors = <<>> =>
                  vf.result = [code |-> V[k + 1].code, is_valid |-> TRUE,
                               errors |-> <<>>]
           /\ V[k + 1].errors # <<>> =>
                  /\ k = vf.max_attempts
                  /\ ~vf.result.is_valid

\* code that failed validation exactly twice, then passed, with max_attempts=2
C6_Witness ==
    /\ vf.pc = "returned"
    /\ vf.max_attempts = 2
    /\ Len(Events("request")) = 2
    /\ vf.result.is_valid
    /\ vf.result.code # vf.input

\* C7: with max_attempts = 0 on code that fails validation no repair request
\* is sent and the input code comes back unchanged with is_valid = False and
\* the error list of the single validation of that input.
C7_ZeroAttempts ==
    (vf.pc # "idle" /\ vf.max_attempts = 0
       /\ validate(vf.input, ExpectedClass) # <<>>) =>
        /\ Events("request") = <<>>
        /\ Events("candidate") = <<>>
        /\ vf.pc \in {"validate", "returned"}
        /\ vf.pc = "returned" =>
               /\ vf_log = <<Event("validate", vf.input,
                                   validate(vf.input, ExpectedClass))>>
               /\ vf.result = [code |-> vf.input, is_valid |-> FALSE,
                               errors |-> validate(vf.input, ExpectedClass)]

\* invalid code came back from a call with max_attempts = 0
C7_Witness ==
    /\ vf.pc = "returned"
    /\ vf.max_attempts = 0
    /\ ~vf.result.is_valid
    /\ vf.result.errors # <<>>

\* C8: every repair request carries exactly the error list of the validation
\* pass immediately before it, made on the code it sends; errors of earlier
\* passes are never included.
C8_RequestCarriesLastErrors ==
    \A x \in 1..Len(vf_log) :
        vf_log[x].kind = "request" =>
            /\ x > 1
            /\ vf_log[x - 1].kind = "validate"
            /\ vf_log[x - 1].code = vf_log[x].code
            /\ vf_log[x - 1].errors = vf_log[x].errors
            /\ vf_log[x].errors = validate(vf_log[x].code, ExpectedClass)

\* two repair requests of one activation whose error lists have no entry in
\* common
C8_Witness ==
    \E x, y \in 1..Len(vf_log) :
        /\ x < y
        /\ vf_log[x].kind = "request"
        /\ vf_log[y].kind = "request"
        /\ \A a \in 1..Len(vf_log[x].errors), b \in 1..Len(vf_log[y].errors) :
               vf_log[x].errors[a] # vf_log[y].errors[b]

(* ---------------------------------------------------------------------- *)
(* Claims on the render repair loop                                        *)
(* ---------------------------------------------------------------------- *)
\* C9: render_and_fix_slide writes the slide's code file only in the step in
\* which a render of a repaired candidate succeeds, and writes exactly the
\* candidate that rendered; a first render that succeeds, and a loop that
\* exhausts its attempts, leave the file as it is.
C9_SaveOnlyRenderedFix ==
    [][ /\ slide_file' # slide_file =>
              \E q \in RenderIds :
                  /\ rf[q].pc = "render"
                  /\ rf[q].attempt > 0
                  /\ rf'[q].pc = "done"
                  /\ rf'[q].status = "success"
                  /\ slide_file' = File(rf[q].sent)
        /\ \A q \in RenderIds :
              ( /\ rf[q].pc = "render"
                /\ rf'[q].pc = "done"
                /\ rf'[q].status = "success"
                /\ rf[q].attempt > 0 )
              => slide_file' = File(rf[q].sent)
        /\ \A q \in RenderIds :
              ( /\ rf[q].pc = "render"
                /\ rf'[q].pc = "done"
                /\ \/ rf'[q].status = "failed"
                   \/ rf[q].attempt = 0 )
              => slide_file' = slide_file
      ]_vars

\* a request whose first render failed stored the repaired candidate, which
\* differs from the code it had read
C9_Witness ==
    \E q \in RenderIds :
        /\ rf[q].pc = "done"
        /\ rf[q].status = "success"
        /\ rf[q].attempt > 0
        /\ slide_file = File(rf[q].code)
        /\ slide_file.code # SyntaxBad
        /\ \E p \in RenderIds : p # q /\ rf[p].pc = "render"
                                     /\ rf[p].code # slide_file.code

(* ---------------------------------------------------------------------- *)
(* Claims on the job / pipeline state model                                *)
(* ---------------------------------------------------------------------- *)
\* C10: whatever the in-memory jobs dict holds (nothing after a restart, a
\* stale or failed record), list_jobs reports for every job it lists exactly
\* the furthest stage whose artifact is on disk, manifest over plan over
\* markdown, and lists every job that has one of these artifacts.
C10_DiscoverFromStoreOnly ==
    [][ list_jobs =>
          /\ \A j \in JobIds :
                 (paper_md[j] \/ plan_json[j] # NoPlan
                    \/ manifest_json[j] # NoPlan) => j \in DOMAIN discovered'
          /\ \A j \in DOMAIN discovered' :
               LET step == discovered'[j].completed_step IN
               /\ step = "manim_complete" <=> manifest_json[j] # NoPlan
               /\ step = "plan_complete" <=>
                      (manifest_json[j] = NoPlan /\ plan_json[j] # NoPlan)
               /\ step = "ocr_complete" <=>
                      (manifest_json[j] = NoPlan /\ plan_json[j] = NoPlan
                         /\ paper_md[j])
               /\ step = "unknown" <=>
                      (manifest_json[j] = NoPlan /\ plan_json[j] = NoPlan
                         /\ ~paper_md[j])
      ]_vars

\* after a restart the jobs dict is empty and list_jobs reports the plan stage
\* of a job whose plan.json is on disk
C10_Witness ==
    \E j \in JobIds :
        /\ jobs[j] = NoJob
        /\ j \in DOMAIN discovered
        /\ discovered[j].completed_step = "plan_complete"
        /\ plan_json[j] # NoPlan /\ manifest_json[j] = NoPlan

\* C11: in every state the API operations reach from an empty store, a job
\* with manifest.json has plan.json and a job with plan.json has paper.md, so
\* no list_jobs entry and no restore_job answer reports a stage as complete
\* while the artifact of an earlier stage is missing.
C11_NoLaterStageWithoutEarlier ==
    /\ \A j \in JobIds :
          /\ manifest_json[j] # NoPlan => plan_json[j] # NoPlan
          /\ plan_json[j] # NoPlan => paper_md[j]
    /\ \A j \in DOMAIN discovered :
          /\ discovered[j].completed_step = "manim_complete" =>
                 discovered[j].has_plan /\ discovered[j].has_markdown
          /\ discovered[j].completed_step = "plan_complete" =>
                 discovered[j].has_markdown
    /\ response.op = "restore" =>
          /\ response.status = "manim_complete" =>
                 plan_json[response.job] # NoPlan /\ paper_md[response.job]
          /\ response.status = "plan_complete" => paper_md[response.job]

\* after a restart, a job whose three stage artifacts are on disk is restored
\* at manim_complete
C11_Witness ==
    /\ response = Resp("restore", "j1", "manim_complete")
    /\ manifest_json["j1"] # NoPlan /\ plan_json["j1"] # NoPlan
    /\ paper_md["j1"]
    /\ jobs["j1"] = JobStatus("complete", "manim_complete")

\* C12: a background start request for a job without plan.json fails with the
\* not-found error that names the plan, with no collaborator call and no
\* change of a task record, a request slot or a scheduled run. (The same
\* holds of create_plan without paper.md and of generate_manim_code without
\* plan.json, whose first statement is the check of the file.)
C12_AdvanceWithoutPredecessor ==
    [][\A j \in Jobs :
         plan_json[j] = NoPlan =>
           /\ \A s \in StartIds :
                start_video_generation(s, j) =>
                  /\ response' = Resp("gm_start", j, "404")
                  /\ UNCHANGED gmVars
           /\ start_kodisc_generation(j) =>
                  /\ response' = Resp("kodisc_start", j, "404")
                  /\ UNCHANGED kodiscVars
      ]_vars

\* C13: whether process, plan or manim generation is accepted is decided by
\* the artifacts alone: process is accepted exactly when the uploaded PDF is
\* in the store, plan exactly when paper.md is, manim generation exactly when
\* plan.json is, whatever the in-memory jobs dict holds (so two states with
\* the same artifacts and different jobs dicts give the same verdict).
C13_AcceptanceFromStoreOnly ==
    [][\A j \in JobIds :
         /\ process_pdf(j) =>
               (response' = Resp("process", j, "404") <=> ~upload_pdf_file[j])
         /\ (\E n \in 0..NumSlides, io \in BOOLEAN : create_plan(j, n, io)) =>
               (response' = Resp("plan", j, "404") <=> ~paper_md[j])
         /\ (\E k \in 0..MaxPlan + 1, invalid \in SUBSET (1..MaxPlan) :
                 generate_manim_code(j, k, invalid)) =>
               (response' = Resp("manim", j, "404") <=> plan_json[j] = NoPlan)
      ]_vars

\* the position of a step label in the stage order uploaded, extracted,
\* planned, generated; the label of a stage in progress has the position of
\* the stage it started from
StageRank(step) ==
    CASE step \in {"uploaded", "ocr_processing"} -> 0
      [] step \in {"ocr_complete", "planning"} -> 1
      [] step \in {"plan_complete", "manim_generation"} -> 2
      [] step = "manim_complete" -> 3

\* C14: no API operation (a stage handler run again, restore, the fixture)
\* moves the step of a job's record to an earlier position of the stage
\* order.
C14_StepNeverMovesBack ==
    [][\A j \in JobIds :
         (jobs[j] # NoJob /\ jobs'[j] # NoJob) =>
             StageRank(jobs'[j].step) >= StageRank(jobs[j].step)
      ]_vars

\* the record the artifacts of job j stand for
DiskTruth(j) ==
    [status |-> IF manifest_json[j] # NoPlan THEN "complete" ELSE "processing",
     step |-> IF manifest_json[j] # NoPlan THEN "manim_complete"
              ELSE IF plan_json[j] # NoPlan THEN "plan_complete"
              ELSE IF paper_md[j] THEN "ocr_complete" ELSE "uploaded",
     error |-> "none"]

\* C15: restore_job installs for the job the record its artifacts stand for,
\* whatever record (none, active, stale, failed) was there, and touches no
\* artifact, no task record and no other job's record; applied to the state
\* a restore has produced it changes neither the jobs dict nor the answer.
C15_RestoreIdempotentDiskDerived ==
    [][\A j \in JobIds :
         restore_job(j) =>
           /\ UNCHANGED <<storeVars, plan_json, gmVars, kodiscVars>>
           /\ \A k \in JobIds \ {j} : jobs'[k] = jobs[k]
           /\ IF output_dir[j]
              THEN /\ jobs'[j] = DiskTruth(j)
                   /\ response' = Resp("restore", j, DiskTruth(j).step)
              ELSE /\ jobs'[j] = jobs[j]
                   /\ response' = Resp("restore", j, "404")
           /\ ( /\ response.op = "restore" /\ response.job = j
                /\ output_dir[j] => jobs[j] = DiskTruth(j)
                /\ response.status =
                       IF output_dir[j] THEN DiskTruth(j).step ELSE "404" )
              => UNCHANGED <<jobs, response>>
      ]_vars

\* a job with paper.md and no plan.json has been restored: its record is the
\* one of its artifacts
C15_Witness ==
    \E j \in JobIds :
        /\ response = Resp("restore", j, "ocr_complete")
        /\ jobs[j] = JobStatus("processing", "ocr_complete")
        /\ paper_md[j] /\ plan_json[j] = NoPlan

\* a job has at least one artifact of some kind in the store
HasArtifact(j) ==
    \/ upload_pdf_file[j] \/ paper_md[j] \/ plan_json[j] # NoPlan
    \/ manifest_json[j] # NoPlan \/ code_files[j] # {}

\* C16: list_jobs lists every job that has at least one artifact, the job
\* whose only artifact is the uploaded PDF included, and restore_job succeeds
\* for every such job.
C16_EveryJobWithArtifactListed ==
    [][ /\ list_jobs =>
             \A j \in JobIds : HasArtifact(j) => j \in DOMAIN discovered'
        /\ \A j \in JobIds :
             (HasArtifact(j) /\ restore_job(j)) =>
                 response' # Resp("restore", j, "404")
      ]_vars

\* C17: when a background run of a job ends with an unrecovered failure (an
\* exception caught by the run's except clause), the job's record has status
\* failed and carries the error (the same is claimed of process, plan, manim
\* generation and the render-repair endpoint); the record is never left
\* processing.
C17_FailureMarksJobFailed ==
    \A r \in StartIds :
        /\ (gm_run[r].stop = "error" /\ jobs[gm_run[r].job] # NoJob) =>
               /\ jobs[gm_run[r].job].status = "failed"
               /\ jobs[gm_run[r].job].error # "none"
        /\ (kodisc_run[r].stop = "error" /\ jobs[kodisc_run[r].job] # NoJob) =>
               /\ jobs[kodisc_run[r].job].status = "failed"
               /\ jobs[kodisc_run[r].job].error # "none"

\* C18: when manim generation completes although the repair loop of some
\* slide ran out of attempts without a clean validation, the last candidate
\* of that slide is still stored as its code file and the validation failure
\* is recorded in the error field of the job's record.
C18_ExhaustedRepairSurfaced ==
    [][\A j \in JobIds, invalid \in SUBSET (1..MaxPlan) :
         (invalid # {} /\ generate_manim_code(j, 0, invalid)) =>
             /\ invalid \subseteq code_files'[j]
             /\ invalid \subseteq code_invalid'[j]
             /\ jobs'[j].error = "validation_error"
      ]_vars

\* the change of a task record and of its run that the claim requires when
\* the unit with loop index run.i has failed
FailedUnitRecorded(rec, rec2, run, run2) ==
    /\ Len(rec2.results) = Len(rec.results) + 1
    /\ rec2.results[Len(rec2.results)].status = "failed"
    /\ rec2.results[Len(rec2.results)].slide_number = run.i + 1
    /\ rec2.results[Len(rec2.results)].error = "error_message"
    /\ \A x \in 1..Len(rec.results) : rec2.results[x] = rec.results[x]
    /\ rec2.completed_slides = run.i + 1
    /\ rec2.failed = rec.failed + 1
    /\ (run.i + 1 < run.n /\ ~rec.cancel_flag) =>
           (run2.pc = "inflight" /\ run2.i = run.i + 1)

\* C19: in both background loops a unit whose collaborator calls failed gets
\* a failed result with the error text appended to results, the completed
\* counter becomes its index and, unless cancel was requested, the run goes
\* on to the next unit; a run whose last unit returns, successful or not,
\* ends complete, not error, having called the collaborator for all n units.
C19_UnitFailureNeverAborts ==
    [][\A r \in StartIds, io \in BOOLEAN :
         /\ generate_videos_background_resume(r, FALSE, io) =>
               FailedUnitRecorded(gm_records[gm_run[r].task],
                                  gm_records'[gm_run[r].task],
                                  gm_run[r], gm_run'[r])
         /\ (gm_run[r].i + 1 = gm_run[r].n /\
               \E ok \in BOOLEAN :
                   generate_videos_background_resume(r, ok, TRUE)) =>
               /\ gm_records'[gm_run[r].task].status = "complete"
               /\ gm_run'[r].stop = "complete"
               /\ gm_calls'[r] = [x \in 1..gm_run[r].n |-> x]
         /\ (kodisc_run[r].tier = 3 /\
               generate_kodisc_videos_background_resume(r, FALSE, io)) =>
               FailedUnitRecorded(kodisc_records[kodisc_run[r].task],
                                  kodisc_records'[kodisc_run[r].task],
                                  kodisc_run[r], kodisc_run'[r])
         /\ (kodisc_run[r].i + 1 = kodisc_run[r].n /\
               \/ generate_kodisc_videos_background_resume(r, TRUE, TRUE)
               \/ (kodisc_run[r].tier = 3 /\
                     generate_kodisc_videos_background_resume(r, FALSE, TRUE))) =>
               /\ kodisc_records'[kodisc_run[r].task].status = "complete"
               /\ kodisc_run'[r].pc = "done"
               /\ \A u \in 1..kodisc_run[r].n : Len(CallsFor(r, u)) >= 1
      ]_vars

\* a Kodisc run of a plan with at least two slides has ended complete with a
\* failed and a successful unit in its results
C19_Witness ==
    \E r \in StartIds :
        /\ kodisc_run[r].pc = "done" /\ kodisc_run[r].stop = "complete"
        /\ LET rec == kodisc_records[kodisc_run[r].task] IN
           /\ rec.status = "complete"
           /\ rec.failed >= 1 /\ rec.successful >= 1
           /\ Len(rec.results) = kodisc_run[r].n
           /\ rec.results[1].status = "failed"

\* what the claim allows a cancel request for job j to do to a manager's
\* task dict (tasks) and records, and how it must answer
CancelEffect(op, j, tasks, records, records2) ==
    IF tasks[j] = 0
    THEN /\ records2 = records
         /\ response' = Resp(op, j, "404")
    ELSE IF records[tasks[j]].status = "running"
    THEN /\ Len(records2) = Len(records)
         /\ \A t \in 1..Len(records) :
               /\ t # tasks[j] => records2[t] = records[t]
               /\ \A f \in DOMAIN records[t] \ {"cancel_flag"} :
                      records2[t][f] = records[t][f]
         /\ records2[tasks[j]].cancel_flag
    ELSE records2 = records

\* C20: a cancel request changes nothing but the cancel flag of the job's
\* record when that record is running (status, counters and results stay, no
\* run is created, advanced or stopped, no collaborator call is made); it
\* changes nothing at all when the record is not running; for a job without
\* record it answers not-found and creates none.
C20_CancelOnlyFlipsFlag ==
    [][\A j \in Jobs :
         /\ cancel_video_generation(j) =>
               /\ CancelEffect("gm_cancel", j, generation_tasks, gm_records,
                               gm_records')
               /\ UNCHANGED <<generation_tasks, gm_req, gm_run, gm_calls,
                              kodiscVars, jobs, plan_json>>
         /\ cancel_kodisc_generation(j) =>
               /\ CancelEffect("kodisc_cancel", j, kodisc_tasks,
                               kodisc_records, kodisc_records')
               /\ UNCHANGED <<kodisc_tasks, kodisc_run, kodisc_calls, gmVars,
                              jobs, plan_json>>
      ]_vars

\* a cancel request was accepted for a run that has recorded a slide and has
\* another one in flight
C20_Witness ==
    \E j \in Jobs, r \in StartIds :
        /\ response = Resp("gm_cancel", j, "cancelling")
        /\ generation_tasks[j] # 0
        /\ gm_run[r].task = generation_tasks[j] /\ gm_run[r].pc = "inflight"
        /\ LET rec == gm_records[generation_tasks[j]] IN
           /\ rec.cancel_flag /\ rec.status = "running"
           /\ Len(rec.results) >= 1

\* the statuses of a task record whose run has ended
Terminal == {"complete", "cancelled", "error"}

\* the record of job j in tasks2/records2 is a fresh one, and the record the
\* job had before is no longer the job's record
FreshRecord(j, tasks, records, tasks2, records2) ==
    /\ tasks2[j] # tasks[j]
    /\ tasks2[j] = Len(records2)
    /\ \A t \in 1..Len(records) : records2[t] = records[t]
    /\ LET rec == records2[tasks2[j]] IN
       /\ rec.status = "running"
       /\ rec.completed_slides = 0 /\ rec.successful = 0 /\ rec.failed = 0
       /\ rec.results = <<>>
       /\ ~rec.cancel_flag
       /\ ~rec.error

\* C21: a start request that is accepted for a job whose record is terminal
\* (complete, cancelled or error) gives the job a fresh record: running,
\* counters 0, no results, cancel flag false, no error; the flag and the
\* results of the previous record stay with that record.
C21_RestartGetsFreshRecord ==
    [][\A j \in Jobs :
         /\ \A s \in StartIds :
              ( /\ generation_tasks[j] # 0
                /\ gm_records[generation_tasks[j]].status \in Terminal
                /\ gm_req[s].job = j
                /\ start_video_generation_resume(s, TRUE)
                /\ response' = Resp("gm_start", j, "started") )
              => FreshRecord(j, generation_tasks, gm_records,
                             generation_tasks', gm_records')
         /\ ( /\ kodisc_tasks[j] # 0
              /\ kodisc_records[kodisc_tasks[j]].status \in Terminal
              /\ start_kodisc_generation(j)
              /\ response' = Resp("kodisc_start", j, "started") )
            => FreshRecord(j, kodisc_tasks, kodisc_records,
                           kodisc_tasks', kodisc_records')
      ]_vars

\* a start was accepted after a run that was cancelled with a result
\* recorded: the job has a second, fresh record
C21_Witness ==
    \E j \in Jobs :
        /\ response = Resp("gm_start", j, "started")
        /\ generation_tasks[j] = 2
        /\ gm_records[1].status = "cancelled"
        /\ gm_records[1].cancel_flag /\ Len(gm_records[1].results) >= 1
        /\ gm_records[2].status = "running"
        /\ ~gm_records[2].cancel_flag /\ gm_records[2].results = <<>>

\* C22: when check_availability() answers false, every operation that needs
\* the render service (render one slide, render all, render-and-fix, generate
\* one, all or custom, background start) is refused with 503 in that very
\* step: no render or generate call is made, no file is written and no task
\* record or run is created.
C22_UnavailableRefusedBeforeWork ==
    [][/\ \A s \in StartIds :
            start_video_generation_resume(s, FALSE) =>
                /\ response' = Resp("gm_start", gm_req[s].job, "503")
                /\ UNCHANGED <<generation_tasks, gm_records, gm_run, gm_calls>>
       /\ \A q \in RenderIds :
            render_and_fix_slide_resume(q, FALSE) =>
                /\ response' = Resp("render_fix", rf[q].job, "503")
                /\ rf'[q].pc = "done" /\ rf'[q].sent = NoCode
                /\ UNCHANGED <<slide_file, slide_manifest>>
       /\ (\/ render_slide_resume(FALSE)
           \/ render_all_slides_resume(FALSE)
           \/ generate_video_from_plan_resume(FALSE)
           \/ \E io \in BOOLEAN :
                  generate_all_videos_from_plan_resume(FALSE, io)
           \/ generate_custom_video_resume(FALSE)) =>
                /\ response' = Resp(ep.op, ep.job, "503")
                /\ ep'.pc = "done" /\ ep'.calls = 0
                /\ UNCHANGED <<gm_code_files, gm_manifest_json, code_files,
                               manifest_json>>
      ]_vars

\* each kind of operation was refused after the service had been available
\* to an earlier request of the same behaviour
C22_Witness ==
    \/ /\ response = Resp("gm_start", "j1", "503")
       /\ \E s \in StartIds : gm_req[s].pc = "done"
       /\ Len(gm_records) = 1
    \/ /\ response = Resp("render_fix", "j1", "503")
       /\ \E q, p \in RenderIds : rf[q].status = "503" /\ rf[p].pc = "render"
    \/ /\ response = Resp("generate_all", "j1", "503")
       /\ gm_manifest_json["j1"] # NoPlan

\* the response cut inside its last slide object: the opened plan, the
\* slide objects before the last each followed by a comma, and the first m
\* characters of the last
CutInLastSlide(objs, m) ==
    PlanOpen \o Join(SubSeq(objs, 1, Len(objs) - 1)) \o <<",", " ">>
             \o SubSeq(objs[Len(objs)], 1, m)

\* C23: a response cut by the size limit inside its (k+1)-th slide object,
\* after k >= 1 complete slide objects each followed by a comma, is repaired
\* to a text that parses to the plan of exactly the first k slides.
C23_RepairKeepsFirstKSlides ==
    \A n \in 2..MaxResponseSlides : \A objs \in [1..n -> SlideObjects] :
        \A m \in 1..Len(objs[n]) - 1 :
            (planning.repairs = 1 /\ planning.raw = CutInLastSlide(objs, m)) =>
                /\ json_loads(planning.text).ok
                /\ json_loads(planning.text).val =
                       json_loads(PlanText(SubSeq(objs, 1, n - 1))).val

\* C24: a planning request calls the collaborator once and runs the repairer
\* exactly when the stop reason is "max_tokens", once; when the text it then
\* parses is not JSON, the request answers 500, the job is failed with the
\* error that names the parse exception, and plan.json is left as it was.
C24_RepairOnlyOnSizeLimitThenFail ==
    [][\A j \in Jobs :
          ((\E io \in BOOLEAN : create_plan_from_reply(j, io))
              /\ HasMarkdown(j)) =>
              /\ planning'.calls = 1
              /\ planning'.repairs =
                     (IF plan_reply.stop_reason = "max_tokens" THEN 1 ELSE 0)
              /\ planning'.text =
                     (IF plan_reply.stop_reason = "max_tokens"
                      THEN repair_truncated_json(plan_reply.text)
                      ELSE plan_reply.text)
              /\ ~json_loads(planning'.text).ok =>
                     /\ response' = Resp("plan", j, "500")
                     /\ jobs'[j].status = "failed"
                     /\ jobs'[j].error =
                            "Failed to parse presentation plan: JSONDecodeError"
                     /\ plan_json' = plan_json
      ]_vars

\* a repaired text that did not parse failed the job and wrote no plan
C24_Witness ==
    /\ planning.stop_reason = "max_tokens" /\ planning.repairs = 1
    /\ planning.text # planning.raw
    /\ ~json_loads(planning.text).ok
    /\ response = Resp("plan", "j1", "500")
    /\ jobs["j1"].status = "failed"
    /\ plan_json["j1"] = NoPlan

\* the error list holds an entry of the check tag
Reported(errors, tag) == \E h \in 1..Len(errors) : errors[h] = tag

\* the place of a check in the battery
CheckRank(tag) ==
    CASE tag = "[SYNTAX]" -> 1
      [] tag = "[IMPORT]" -> 2
      [] tag = "[CLASS]" -> 3
      [] tag = "[METHOD]" -> 4
      [] tag = "[SECURITY]" -> 5
      [] tag = "[RUNTIME]" -> 6

\* C25 as stated: validate returns is_valid exactly when its error list is
\* empty, and the list holds one entry for every check that fails, in the
\* order syntax, import, class, method, security, runtime, whatever the
\* earlier checks found.
C25_EveryFailingCheckReported ==
    LET c == vcall.code IN
    vcall.returned =>
        /\ vcall.is_valid <=> vcall.errors = <<>>
        /\ vcall.errors =
               ErrorIf(~validate_syntax(c), "[SYNTAX]")
               \o ErrorIf(~validate_imports(c), "[IMPORT]")
               \o ErrorIf(~validate_class_exists(c, ExpectedClass), "[CLASS]")
               \o ErrorIf(~validate_construct_method(c), "[METHOD]")
               \o ErrorIf(~validate_no_dangerous_code(c), "[SECURITY]")
               \o ErrorIf(~vcall.skip_import_check
                              /\ ~try_import(c, vcall.exec_ok), "[RUNTIME]")

\* C25 amended: is_valid exactly when the list is empty; the entries are in
\* the order of the battery; each of syntax, import, class, method and
\* security is reported exactly when its own check fails; the runtime check
\* is reported exactly when the import test was asked for, the syntax check
\* passed and exec raised.
C25_FailingChecksReportedInOrder ==
    LET c == vcall.code
        e == vcall.errors
    IN
    vcall.returned =>
        /\ vcall.is_valid <=> e = <<>>
        /\ \A h, g \in 1..Len(e) : h < g => CheckRank(e[h]) < CheckRank(e[g])
        /\ Reported(e, "[SYNTAX]") <=> ~validate_syntax(c)
        /\ Reported(e, "[IMPORT]") <=> ~validate_imports(c)
        /\ Reported(e, "[CLASS]") <=> ~validate_class_exists(c, ExpectedClass)
        /\ Reported(e, "[METHOD]") <=> ~validate_construct_method(c)
        /\ Reported(e, "[SECURITY]") <=> ~validate_no_dangerous_code(c)
        /\ Reported(e, "[RUNTIME]") <=>
               (~vcall.skip_import_check /\ validate_syntax(c)
                   /\ ~try_import(c, vcall.exec_ok))

\* five checks failed on one text and all five are in the list
C25_Witness ==
    /\ vcall.returned /\ ~vcall.is_valid
    /\ vcall.errors =
           <<"[IMPORT]", "[CLASS]", "[METHOD]", "[SECURITY]", "[RUNTIME]">>

\* C30: for code that parses, validate reports [METHOD] exactly when the
\* class named expected_class has no construct method, whatever the other
\* classes of the code define.
C30_MethodCheckOnExpectedClassOnly ==
    (vcall.returned /\ validate_syntax(vcall.code)) =>
        (Reported(vcall.errors, "[METHOD]") <=>
            \E c \in vcall.code.classes :
                c.name = ExpectedClass /\ ~c.construct)

\* C26: a (job, artifact kind) key has at most one in-flight operation that
\* will write it: of two process requests of a job the second is refused
\* while the first awaits the OCR service, so paper.md has one writer.
C26_OneWriterPerArtifactKey ==
    \A j \in JobIds : ocr_inflight[j] <= 1

\* C27: a run whose record took a cancel request (the flag is set only while
\* the status is running) ends with the status cancelled.
C27_AcceptedCancelEndsCancelled ==
    /\ \A x \in 1..Len(gm_records) :
           (gm_records[x].cancel_flag /\ gm_records[x].status \in Terminal) =>
               gm_records[x].status = "cancelled"
    /\ \A x \in 1..Len(kodisc_records) :
           (kodisc_records[x].cancel_flag
               /\ kodisc_records[x].status \in Terminal) =>
               kodisc_records[x].status = "cancelled"

\* C28: when _validate_and_fix returns is_valid = False, the code is the last
\* candidate it received (the input when it asked for none) and the errors
\* are the validation result of that very code; when it returns
\* is_valid = True the error list is empty.
C28_GaveUpWithErrorsOfReturnedCode ==
    vf.pc = "returned" =>
        LET K == Events("candidate")
            last == IF K = <<>> THEN vf.input ELSE K[Len(K)].code
        IN /\ ~vf.result.is_valid =>
                  /\ vf.result.code = last
                  /\ vf.result.errors = validate(last, ExpectedClass)
                  /\ vf.result.errors # <<>>
           /\ vf.result.is_valid => vf.result.errors = <<>>

\* the loop gave up on a candidate whose errors differ from those of the
\* input
C28_Witness ==
    /\ vf.pc = "returned"
    /\ ~vf.result.is_valid
    /\ Len(Events("candidate")) >= 1
    /\ vf_log[1].kind = "validate"
    /\ vf_log[1].errors # vf.result.errors

\* C29: with max_attempts = m, _validate_and_fix makes at most m + 1
\* validations and m repair requests, render_and_fix_slide makes at most
\* m + 1 render calls and m repair requests, whatever the collaborators
\* answer, and a repair request after a failed render carries the error of
\* that render alone.
C29_RepairLoopsBounded ==
    [][/\ Len(Events("validate"))' <= vf'.max_attempts + 1
       /\ Len(Events("request"))' <= vf'.max_attempts
       /\ \A q \in RenderIds :
              /\ rf'[q].renders <= rf'[q].max_attempts + 1
              /\ rf'[q].requests <= rf'[q].max_attempts
              /\ ((\E ok \in BOOLEAN, t \in RawResponses :
                       render_failed(q, ok, t))
                     /\ rf'[q].requests = rf[q].requests + 1) =>
                     rf'[q].carried = <<RenderError(rf[q].renders)>>
      ]_vars

\* a render loop that used every attempt: m + 1 renders, m repair requests,
\* the last request carrying the error of the render before it
C29_Witness ==
    \E q \in RenderIds :
        /\ rf[q].status = "failed"
        /\ rf[q].max_attempts >= 2
        /\ rf[q].renders = rf[q].max_attempts + 1
        /\ rf[q].requests = rf[q].max_attempts
        /\ rf[q].carried = <<RenderError(rf[q].max_attempts)>>

\* the braces and brackets of text from position i on, those inside a
\* string literal aside, close the openers on stack, innermost first, and
\* leave none open
RECURSIVE Nested(_, _, _, _)
Nested(text, i, stack, in_string) ==
    IF i > Len(text) THEN stack = <<>>
    ELSE IF text[i] = Q
    THEN Nested(text, i + 1, stack, ~in_string)
    ELSE IF in_string
    THEN Nested(text, i + 1, stack, in_string)
    ELSE IF text[i] \in {"{", "["}
    THEN Nested(text, i + 1, <<text[i]>> \o stack, in_string)
    ELSE IF text[i] = "}"
    THEN /\ stack # <<>>
         /\ Head(stack) = "{"
         /\ Nested(text, i + 1, Tail(stack), in_string)
    ELSE IF text[i] = "]"
    THEN /\ stack # <<>>
         /\ Head(stack) = "["
         /\ Nested(text, i + 1, Tail(stack), in_string)
    ELSE Nested(text, i + 1, stack, in_string)

Balanced(text) == Nested(text, 1, <<>>, FALSE)

\* C31: whenever _repair_truncated_json takes its first strategy (the text
\* holds "}," at an index > 0), every opening brace and bracket of the
\* repaired text is matched by a closer in proper nesting order, wherever
\* that last "}," lies.
C31_RepairByCutIsBalanced ==
    (planning.repairs = 1 /\ RFind(planning.raw) > 0) =>
        Balanced(planning.text)

\* C32: when _repair_truncated_json takes its second strategy (no "}," at an
\* index > 0), the repaired text is the raw text, one closing quote if its
\* quote count is odd, then #"{" - #"}" closing braces and #"[" - #"]"
\* closing brackets counted over the raw text, and its braces and brackets
\* are matched in proper nesting order.
C32_RepairByClosingIsBalanced ==
    (planning.repairs = 1 /\ RFind(planning.raw) <= 0) =>
        /\ planning.text =
               planning.raw
                 \o Repeat(Q, Count(planning.raw, Q) % 2)
                 \o Repeat("}", Count(planning.raw, "{")
                                    - Count(planning.raw, "}"))
                 \o Repeat("]", Count(planning.raw, "[")
                                    - Count(planning.raw, "]"))
        /\ Balanced(planning.text)

\* a stage-advance handler of job j ends in this step: with its stage
\* complete (done), or answering 500 from its except clause
StageAdvance(j, done) ==
    \/ /\ \E ok \in BOOLEAN, io \in BOOLEAN : process_pdf_resume(j, ok, io)
       /\ response' =
              Resp("process", j, IF done THEN "ocr_complete" ELSE "500")
    \/ /\ \E n \in 0..NumSlides, io \in BOOLEAN : create_plan(j, n, io)
       /\ response' = Resp("plan", j, IF done THEN "plan_complete" ELSE "500")
    \/ /\ \E k \in 0..MaxPlan + 1, invalid \in SUBSET (1..MaxPlan) :
              generate_manim_code(j, k, invalid)
       /\ response' =
              Resp("manim", j, IF done THEN "manim_complete" ELSE "500")

\* C33: when a stage-advance handler fails (a collaborator call or a write
\* raises at any point of the handler), the artifacts of the job are exactly
\* as they were before the request: manim generation that fails at slide k
\* leaves no new or changed code file and no new or changed manifest.
C33_FailedAdvanceLeavesArtifacts ==
    [][\A j \in JobIds :
          StageAdvance(j, FALSE) =>
              UNCHANGED <<paper_md, plan_json, code_files, code_invalid,
                          manifest_json>>
      ]_vars

\* the counters of a task record agree with its results list and stay
\* within total_slides, and its percentage is within 0..100
CountersConsistent(rec) ==
    /\ Len(rec.results) = rec.completed_slides
    /\ rec.completed_slides = rec.successful + rec.failed
    /\ rec.completed_slides <= rec.total_slides
    /\ ProgressPercent(rec) \in 0..1000

\* C34: in every reachable state of a background task record, len(results)
\* = completed_slides = successful + failed <= total_slides, and
\* completed_slides never decreases, so that the percentage reported by
\* progress is between 0 and 100; progress itself changes no state.
C34_CountersConsistentAndMonotone ==
    /\ [](\A t \in DOMAIN gm_records : CountersConsistent(gm_records[t]))
    /\ [](\A t \in DOMAIN kodisc_records :
              CountersConsistent(kodisc_records[t]))
    /\ [][\A t \in DOMAIN gm_records :
              gm_records'[t].completed_slides
                  >= gm_records[t].completed_slides]_vars
    /\ [][\A t \in DOMAIN kodisc_records :
              kodisc_records'[t].completed_slides
                  >= kodisc_records[t].completed_slides]_vars
    /\ [][((\E j \in Jobs : get_generation_progress(j))
             \/ (\E j \in Jobs, saved \in BOOLEAN :
                    get_kodisc_progress(j, saved))) =>
              UNCHANGED <<bgVars, nonBgVars>>]_vars

\* C35: in every state reachable through the API, if slides/manifest.json of
\* a job exists then every code file it lists exists: the manifest is
\* written only after the code file of every slide of the plan, and no
\* operation deletes a code file.
C35_ManifestListsExistingCode ==
    \A j \in JobIds :
        manifest_json[j] # NoPlan => 1..manifest_json[j] \subseteq code_files[j]

\* manim generation has just written the manifest of a plan with slides
C35_Witness ==
    \E j \in Jobs :
        /\ response = Resp("manim", j, "manim_complete")
        /\ manifest_json[j] = NumSlides
        /\ code_files[j] = 1..NumSlides

\* C36: in every state reachable through the API, whenever a job has both
\* plan.json and slides/manifest.json, the entries of the manifest correspond
\* one-to-one and in order to the slides of the current plan.json, also
\* after the plan stage is run again on a job that already has a manifest.
C36_ManifestMatchesCurrentPlan ==
    \A j \in JobIds :
        (HasPlan(j) /\ manifest_json[j] # NoPlan) =>
            manifest_json[j] = plan_json[j]

\* C37: a Job record has status failed, and an error, only if its most
\* recent stage-advance attempt failed: after any stage handler completes
\* successfully for a job, the status of that job is not failed and no error
\* text of an earlier failed attempt remains.
C37_SuccessClearsFailure ==
    [][\A j \in JobIds :
          StageAdvance(j, TRUE) =>
              /\ jobs'[j].status # "failed"
              /\ jobs'[j].error = "none"
      ]_vars

\* C38: the in-memory Job record is rebuildable from the artifact store
\* alone: after successful stage advances (process, plan, manim generation)
\* the live record of the job has the step and the status of the record
\* restore_job would install from the artifacts then on disk.
C38_LiveRecordMatchesRestore ==
    [][\A j \in JobIds :
          (StageAdvance(j, TRUE) /\ jobs'[j].status # "failed") =>
              /\ jobs'[j].step = Restored(j)'.step
              /\ jobs'[j].status = Restored(j)'.status
      ]_vars

\* the generate_and_render calls run r issued for slide u
GmCallsFor(r, u) == SelectSeq(gm_calls[r], LAMBDA c : c = u)

\* C39: if every collaborator call eventually returns, every started
\* background run eventually reaches a terminal status (complete, cancelled
\* or error) and never stays running forever; a Generative-Manim run makes
\* at most one generate call per unit, a Kodisc run at most three.
C39_RunsTerminateWithBoundedCalls ==
    /\ \A r \in StartIds :
           (gm_run[r].pc # "none") ~>
               (/\ gm_run[r].pc = "done"
                /\ gm_records[gm_run[r].task].status \in Terminal)
    /\ \A r \in StartIds :
           (kodisc_run[r].pc # "none") ~>
               (/\ kodisc_run[r].pc = "done"
                /\ kodisc_records[kodisc_run[r].task].status \in Terminal)
    /\ \A j \in Jobs :
           (IsRunning(generation_tasks, gm_records, j)
              \/ IsRunning(kodisc_tasks, kodisc_records, j)) ~>
               (/\ ~IsRunning(generation_tasks, gm_records, j)
                /\ ~IsRunning(kodisc_tasks, kodisc_records, j))
    /\ [](\A r \in StartIds : \A u \in 1..MaxPlan :
              /\ Len(GmCallsFor(r, u)) <= 1
              /\ Len(CallsFor(r, u)) <= 3)

\* a Kodisc run has ended complete after a result for every slide and three
\* calls for its first slide
C39_Witness ==
    \E r \in StartIds :
        /\ kodisc_run[r].pc = "done"
        /\ kodisc_records[kodisc_run[r].task].status = "complete"
        /\ Len(kodisc_records[kodisc_run[r].task].results) = NumSlides
        /\ Len(CallsFor(r, 1)) = 3

====
